---- MODULE Spec2Model ----
(***************************************************************************)
(* The incremental optimisation-formulation engine of LUTO2:               *)
(* luto/solvers/solver.py, class LutoSolver.  The Gurobi model is a set of *)
(* variables (handle, lower bound, upper bound) and a set of linear        *)
(* constraints (family, key, handle id, terms, sense, right-hand side).    *)
(* Fractions of a cell are fixed-point numbers: Scale stands for 1.0.      *)
(***************************************************************************)
EXTENDS Integers, Sequences, FiniteSets, TLC

\* ------------------------------------------------------------------ bounds
NCells == 2
MaxUpdates == 2
Scale == 2
MaxYr == 2

\* ------------------------------------------------------------- index sets
Cells == 0 .. (NCells - 1)
LM == {0, 1}
AG_LUS == {0, 1}
NON_AG_LUS == {0, 1, 2}
CMS == {0, 1}
AMS == {"Savanna Burning", "AgTech EI", "Biochar"}
WATER_REGIONS == {1}
\* settings.NON_AGRICULTURAL_LU_BASE_CODE
NON_AGRICULTURAL_LU_BASE_CODE == 100
\* settings.AGRICULTURAL_MANAGEMENT_USE_THRESHOLD, as a fraction of Scale
AGRICULTURAL_MANAGEMENT_USE_THRESHOLD == 1

VARIABLES
    pc,                           \* "unbuilt", "formulated" or "failed"
    year,                         \* number of update_formulation calls so far
    settings,                     \* luto.settings, fixed for the run
    input_data,                   \* self._input_data
    X_ag_dry_vars_jr, X_ag_irr_vars_jr, X_non_ag_vars_kr,
    X_ag_man_dry_vars_jr, X_ag_man_irr_vars_jr,
    gurobi_vars,                  \* the variables of self.gurobi_model
    gurobi_constrs,               \* the constraints of self.gurobi_model
    objective,                    \* the objective of self.gurobi_model
    cell_usage_constraint_r, ag_management_constraints_r,
    adoption_limit_constraints, demand_penalty_constraints,
    water_limit_constraints, ghg_consts_ub, ghg_consts_soft,
    bio_GBF2_constrs, regional_adoption_constrs,
    bio_GBF3_constrs, bio_GBF4_SNES_constrs, bio_GBF4_ECNES_constrs,
    bio_GBF8_constrs,
    updated_cells,                \* what the last _update_variables returned
    solution,                     \* the values solve found for the current model
    deviation,                    \* the values solve found for V, E and W
    decoded                       \* what the last solve returned

\* ---------------------------------------------------------------- settings
\* luto.settings dictionaries imported by the solver
NON_AG_LAND_USES == [k \in NON_AG_LUS |-> k # 2]
NON_AG_LAND_USES_REVERSIBLE == [k \in NON_AG_LUS |-> k = 0]
\* the management options that are switched on
AG_MANAGEMENTS == settings.AG_MANAGEMENTS
AG_MANAGEMENTS_REVERSIBLE == [am \in AMS |-> am = "Savanna Burning"]

\* tools.am_name_snake_case: lower case, blanks to underscores
am_name_snake_case(am) ==
    CASE am = "Savanna Burning" -> "savanna_burning"
      [] am = "AgTech EI" -> "agtech_ei"
      [] am = "Biochar" -> "biochar"

\* ------------------------------------------------------- input data (year)
\* SolverInputData.am2j: the land uses of each management option, by position
am2j == [am \in AMS |->
            CASE am = "Savanna Burning" -> <<1>>
              [] am = "AgTech EI" -> <<0, 1>>
              [] am = "Biochar" -> <<0>>]

am_j_idxs(am) == 0 .. (Len(am2j[am]) - 1)
am_j(am, j_idx) == am2j[am][j_idx + 1]
\* am2j[am].index(j)
am_index(am, j) == CHOOSE i \in am_j_idxs(am) : am_j(am, i) = j
\* SolverInputData.j2am: the management options of each land use
j2am(j) == {am \in AMS : \E i \in am_j_idxs(am) : am_j(am, i) = j}

ag_x_mrj(d, m, r, j) == d.cell[r].ag_x[m][j]
non_ag_x_rk(d, r, k) == d.cell[r].non_ag_x[k]
non_ag_lb_rk(d, r, k) == d.cell[r].non_ag_lb[k]
ag_man_lb_mrj(d, am, m, r, j) == d.cell[r].ag_man_lb[am][m][j]
\* the slices ag_x_mrj[:, r, :], non_ag_x_rk[r, :], ag_man_lb_mrj[am][:, r, :]
ag_x_slice(d, r) == d.cell[r].ag_x
non_ag_x_slice(d, r) == d.cell[r].non_ag_x
ag_man_lb_slice(d, am, r) == d.cell[r].ag_man_lb[am]
savanna_eligible_r(d) == {r \in Cells : d.cell[r].sav}
lumap(d) == [r \in Cells |-> d.cell[r].lu]
lmmap(d) == [r \in Cells |-> d.cell[r].lm]

\* SolverInputData index structures over the eligibility arrays
ag_lu2cells(d, m, j) == {r \in Cells : ag_x_mrj(d, m, r, j) # 0}
non_ag_lu2cells(d, k) == {r \in Cells : non_ag_x_rk(d, r, k) # 0}
cells2ag_lu(d, r) == {mj \in LM \X AG_LUS : ag_x_mrj(d, mj[1], r, mj[2]) # 0}

\* limits and coefficients of the year
limit_demand_rescale(d, c) == d.yr * (1 + c * Scale * NCells)
limit_ghg_rescale(d) == d.yr * Scale * (NCells + 1)
limit_water_rescale(d, reg) == d.yr
limit_GBF2_rescale(d) == d.yr
limit_GBF3_rescale(d) == d.yr - 1
limit_GBF4_SNES_rescale(d) == d.yr
limit_GBF4_ECNES_rescale(d) == d.yr
limit_GBF8_rescale(d) == d.yr
\* the cells of the layers: GBF3_ind[v], np.where(GBF4_SNES_xr[x] > 0),
\* np.where(GBF4_ECNES_xr[x] > 0), GBF8_species_indices[s]
GBF3_ind(d) == d.layer
GBF4_SNES_ind(d) == d.layer
GBF4_ECNES_ind(d) == d.layer
GBF8_species_indices(d) == d.layer
ag_man_limits(d, am, j) == d.yr
limit_regional(d) == d.yr
yield_coef(d) == d.yr
\* economic_contr_mrj, and ag_b_mrj, ag_man_b_mrj, non_ag_b_rk
economy_coef(d) == d.yr
biodiv_coef(d) == d.yr + 1
\* scale_factors['Demand'] * price, and the GHG and water scale factors over
\* the base-year figures
demand_penalty_coef(d, c) == d.yr + c
ghg_penalty_coef(d) == d.yr
water_penalty_coef(d) == d.yr

\* ------------------------------------------------------------ cell inputs
BaseCell ==
    [lu |-> 0, lm |-> 0,
     ag_x |-> [m \in LM |-> [j \in AG_LUS |-> IF m = 1 /\ j = 0 THEN 0 ELSE 1]],
     non_ag_x |-> [k \in NON_AG_LUS |-> IF k = 1 THEN 1 ELSE Scale],
     non_ag_lb |-> [k \in NON_AG_LUS |-> 0],
     ag_man_lb |-> [am \in AMS |-> [m \in LM |-> [j \in AG_LUS |-> 0]]],
     sav |-> TRUE]


\* The cell inputs the years are drawn from: the base cell and cells that
\* differ from it in one input of the change detection
CellProfiles ==
    { BaseCell,
      [BaseCell EXCEPT !.lu = 1],
      [BaseCell EXCEPT !.lm = 1],
      [BaseCell EXCEPT !.ag_x[1][0] = 1],
      [BaseCell EXCEPT !.non_ag_x[0] = 0],
      [BaseCell EXCEPT !.non_ag_lb[1] = 1],
      [BaseCell EXCEPT !.non_ag_lb[0] = 1],
      [BaseCell EXCEPT !.non_ag_lb[2] = 1],
      [BaseCell EXCEPT !.ag_man_lb["AgTech EI"][0][1] = 1],
      [BaseCell EXCEPT !.ag_man_lb["Savanna Burning"][0][1] = 1],
      [BaseCell EXCEPT !.ag_man_lb["Biochar"][0][0] = 1],
      [BaseCell EXCEPT !.sav = FALSE] }

\* the cell inputs of the runs over the settings
SettingsCellProfiles ==
    { BaseCell,
      [BaseCell EXCEPT !.ag_x[1][0] = 1, !.non_ag_x[0] = 0] }

MainProfiles ==
    { BaseCell,
      [BaseCell EXCEPT !.ag_x[1][0] = 1, !.non_ag_x[0] = 0],
      [BaseCell EXCEPT !.non_ag_lb[1] = 1, !.ag_man_lb["AgTech EI"][0][1] = 1],
      [BaseCell EXCEPT !.non_ag_lb[0] = 1, !.ag_man_lb["Savanna Burning"][0][1] = 1],
      [BaseCell EXCEPT !.sav = FALSE] }

\* The cell inputs of the years that are solved: dryland land use 1 and
\* non-agricultural land use 0 are eligible
SolveCell ==
    [BaseCell EXCEPT !.ag_x = [m \in LM |-> [j \in AG_LUS |->
                                  IF m = 0 /\ j = 1 THEN 1 ELSE 0]],
                     !.non_ag_x = [k \in NON_AG_LUS |-> IF k = 0 THEN Scale ELSE 0]]

SolveProfiles ==
    { SolveCell,
      [SolveCell EXCEPT !.non_ag_x[1] = 1],
      [SolveCell EXCEPT !.sav = FALSE] }

\* The cell inputs of the years that are decoded: dryland land use 1,
\* irrigated land use 0 and non-agricultural land use 0 are eligible
DecodeCell ==
    [BaseCell EXCEPT !.ag_x = [m \in LM |-> [j \in AG_LUS |->
                                  IF m # j THEN 1 ELSE 0]],
                     !.non_ag_x = [k \in NON_AG_LUS |-> IF k = 0 THEN Scale ELSE 0]]

\* the same cell, and the cell of another land use that is not eligible
\* for savanna burning
DecodeProfiles == {DecodeCell, [DecodeCell EXCEPT !.lu = 1, !.sav = FALSE]}

\* the inputs of a year; `layer` is the set of cells of the biodiversity
\* layers (priority degraded areas, vegetation group, species)
Inputs(profiles) == [cell : [Cells -> profiles], yr : 1 .. MaxYr, layer : {Cells}]

\* the same with layers that cover no cell, one cell or every cell
InputsWithLayers(profiles) ==
    [cell : [Cells -> profiles], yr : 1 .. MaxYr, layer : {{}, {0}, Cells}]

SettingsProfiles ==
    [GHG_CONSTRAINT_TYPE : {"hard"},
     WATER_CONSTRAINT_TYPE : {"hard"},
     GHG_EMISSIONS_LIMITS : {"on"},
     WATER_LIMITS : {"on"},
     BIODIVERSITY_TARGET_GBF_2 : {"on"},
     BIODIVERSITY_TARGET_GBF_3 : {"on"},
     BIODIVERSITY_TARGET_GBF_4_SNES : {"on"},
     BIODIVERSITY_TARGET_GBF_4_ECNES : {"on"},
     BIODIVERSITY_TARGET_GBF_8 : {"on"},
     REGIONAL_ADOPTION_CONSTRAINTS : {"on"},
     AG_MANAGEMENTS : {[am \in AMS |-> am # "Biochar"]},
     OBJECTIVE : {"mincost"}]

\* every combination of the constraint types, the limit switches and the
\* objective, with values the solver does not know
AllSettings ==
    [GHG_CONSTRAINT_TYPE : {"hard", "soft", "medium"},
     WATER_CONSTRAINT_TYPE : {"hard", "soft", "medium"},
     GHG_EMISSIONS_LIMITS : {"on", "off"},
     WATER_LIMITS : {"on", "off"},
     BIODIVERSITY_TARGET_GBF_2 : {"on"},
     BIODIVERSITY_TARGET_GBF_3 : {"on"},
     BIODIVERSITY_TARGET_GBF_4_SNES : {"on"},
     BIODIVERSITY_TARGET_GBF_4_ECNES : {"on"},
     BIODIVERSITY_TARGET_GBF_8 : {"on"},
     REGIONAL_ADOPTION_CONSTRAINTS : {"on"},
     AG_MANAGEMENTS : {[am \in AMS |-> am # "Biochar"]},
     OBJECTIVE : {"mincost", "maxprofit", "minregret"}]

\* the biodiversity targets switched on and off
BiodiversitySettings ==
    [GHG_CONSTRAINT_TYPE : {"hard"},
     WATER_CONSTRAINT_TYPE : {"hard"},
     GHG_EMISSIONS_LIMITS : {"on"},
     WATER_LIMITS : {"on"},
     BIODIVERSITY_TARGET_GBF_2 : {"on", "off"},
     BIODIVERSITY_TARGET_GBF_3 : {"on"},
     BIODIVERSITY_TARGET_GBF_4_SNES : {"on", "off"},
     BIODIVERSITY_TARGET_GBF_4_ECNES : {"on"},
     BIODIVERSITY_TARGET_GBF_8 : {"on", "off"},
     REGIONAL_ADOPTION_CONSTRAINTS : {"on"},
     AG_MANAGEMENTS : {[am \in AMS |-> am # "Biochar"]},
     OBJECTIVE : {"mincost"}]

\* every management option switched on
DecodeSettings ==
    [GHG_CONSTRAINT_TYPE : {"hard"},
     WATER_CONSTRAINT_TYPE : {"hard"},
     GHG_EMISSIONS_LIMITS : {"on"},
     WATER_LIMITS : {"on"},
     BIODIVERSITY_TARGET_GBF_2 : {"on"},
     BIODIVERSITY_TARGET_GBF_3 : {"on"},
     BIODIVERSITY_TARGET_GBF_4_SNES : {"on"},
     BIODIVERSITY_TARGET_GBF_4_ECNES : {"on"},
     BIODIVERSITY_TARGET_GBF_8 : {"on"},
     REGIONAL_ADOPTION_CONSTRAINTS : {"on"},
     AG_MANAGEMENTS : {[am \in AMS |-> TRUE]},
     OBJECTIVE : {"mincost"}]

\* the weights of the objective: WeightOne stands for 1.0
WeightOne == 4
SOLVE_WEIGHT_ALPHA == 1
SOLVE_WEIGHT_BETA == 3
SOLVER_WEIGHT_DEMAND == 1
SOLVER_WEIGHT_GHG == 2
SOLVER_WEIGHT_WATER == 3

\* ------------------------------------------------- handles of the model
\* A Gurobi variable object: its name parts and the call that created it
Var(kind, am, m, j, r, id) ==
    [kind |-> kind, am |-> am, m |-> m, j |-> j, r |-> r, id |-> id]
VarRec(v, lb, ub) == [v |-> v, lb |-> lb, ub |-> ub]
Key(tag, m, j, r) == [tag |-> tag, m |-> m, j |-> j, r |-> r]
\* A Gurobi constraint object, created by the call id:
\*   cpos * sum(pos) - cneg * sum(neg) + cdev * sum(dev)  sense  rhs
\* (pos, neg: allocation variables; dev: deviation variables)
Constr(fam, key, id, pos, cpos, neg, cneg, dev, cdev, sense, rhs) ==
    [fam |-> fam, key |-> key, id |-> id, pos |-> pos, cpos |-> cpos,
     neg |-> neg, cneg |-> cneg, dev |-> dev, cdev |-> cdev,
     sense |-> sense, rhs |-> rhs]

\* The variable store st: the five arrays of LutoSolver, an entry being a
\* variable or NoVar (the 0 of np.zeros)
NoVar == Var("", "", 0, 0, 0, 0)
XAg(st, m) == IF m = 0 THEN st.X_ag_dry_vars_jr ELSE st.X_ag_irr_vars_jr
XMan(st, m) == IF m = 0 THEN st.X_ag_man_dry_vars_jr ELSE st.X_ag_man_irr_vars_jr

\* the variables of a slice of an array
AgVarsIn(st, m, j, cells) == {XAg(st, m)[j][r] : r \in cells} \ {NoVar}
NonAgVarsIn(st, k, cells) == {st.X_non_ag_vars_kr[k][r] : r \in cells} \ {NoVar}
ManVarsIn(st, am, m, j_idx, cells) ==
    {XMan(st, m)[am][j_idx][r] : r \in cells} \ {NoVar}

AM_IDXS == UNION {am_j_idxs(am) : am \in AMS}
AM_M_IDX == {y \in AMS \X LM \X AM_IDXS : y[3] \in am_j_idxs(y[1])}

\* every variable the store holds for cell r
CellAllocVars(st, r) ==
    UNION {AgVarsIn(st, mj[1], mj[2], {r}) : mj \in LM \X AG_LUS}
    \cup UNION {NonAgVarsIn(st, k, {r}) : k \in NON_AG_LUS}
CellManVars(st, r) ==
    UNION {ManVarsIn(st, x[1], x[2], x[3], {r}) :
        x \in AM_M_IDX}
CellVars(st, r) == CellAllocVars(st, r) \cup CellManVars(st, r)


\* ------------------------------------------------ formulate: variables
\* _setup_ag_vars: one variable per (j, r) with r in ag_lu2cells[m, j]
setup_ag_vars(d, m, id) ==
    [j \in AG_LUS |-> [r \in Cells |->
        IF r \in ag_lu2cells(d, m, j) THEN Var("X_ag", "", m, j, r, id) ELSE NoVar]]

\* _setup_non_ag_vars without the test of NON_AG_LAND_USES[k_name]
setup_non_ag_vars_all_uses(d, id) ==
    [k \in NON_AG_LUS |-> [r \in Cells |->
        IF r \in non_ag_lu2cells(d, k)
        THEN Var("X_non_ag", "", 0, k, r, id) ELSE NoVar]]

\* _setup_non_ag_vars: enabled land uses only, r in non_ag_lu2cells[k]
setup_non_ag_vars(d, id) ==
    [k \in NON_AG_LUS |-> [r \in Cells |->
        IF NON_AG_LAND_USES[k] /\ r \in non_ag_lu2cells(d, k)
        THEN Var("X_non_ag", "", 0, k, r, id) ELSE NoVar]]

\* the cells of (am, m, j) in _setup_ag_management_variables: for savanna
\* burning the dryland cells are cut down to the savanna-eligible ones
setup_am_cells(d, am, m, j) ==
    IF m = 0 /\ am_name_snake_case(am) = "savanna_burning"
    THEN ag_lu2cells(d, 0, j) \cap savanna_eligible_r(d)
    ELSE ag_lu2cells(d, m, j)

\* _setup_ag_management_variables: enabled options only
setup_ag_management_variables(d, m, id) ==
    [am \in AMS |-> [j_idx \in am_j_idxs(am) |-> [r \in Cells |->
        IF AG_MANAGEMENTS[am] /\ r \in setup_am_cells(d, am, m, am_j(am, j_idx))
        THEN Var("X_ag_man", am, m, am_j(am, j_idx), r, id) ELSE NoVar]]]

\* bounds given to addVar (the same expressions in formulate and in update)
ag_var_ub == Scale
non_ag_x_lb(d, r, k) ==
    IF NON_AG_LAND_USES_REVERSIBLE[k] THEN 0 ELSE non_ag_lb_rk(d, r, k)
non_ag_x_ub(d, r, k) == non_ag_x_rk(d, r, k)
ag_man_x_lb(d, am, m, r, j) ==
    IF AG_MANAGEMENTS_REVERSIBLE[am] THEN 0 ELSE ag_man_lb_mrj(d, am, m, r, j)
ag_man_x_ub == Scale

\* the Gurobi variables addVar creates for the store entries of `cells`
AddedVars(st, d, cells) ==
    UNION {{VarRec(v, 0, ag_var_ub) : v \in AgVarsIn(st, mj[1], mj[2], cells)} :
              mj \in LM \X AG_LUS}
    \cup UNION {{VarRec(v, non_ag_x_lb(d, v.r, k), non_ag_x_ub(d, v.r, k)) :
                    v \in NonAgVarsIn(st, k, cells)} : k \in NON_AG_LUS}
    \cup UNION {{VarRec(v, ag_man_x_lb(d, v.am, v.m, v.r, v.j), ag_man_x_ub) :
                    v \in ManVarsIn(st, x[1], x[2], x[3], cells)} :
                x \in AM_M_IDX}

\* _setup_deviation_penalties: V always, E and W only for soft types
V(c) == Var("V", "", 0, c, 0, 1)
E == Var("E", "", 0, 0, 0, 1)
W(i) == Var("W", "", 0, i, 0, 1)
Inf == 1000
setup_deviation_penalties(s) ==
    {VarRec(V(c), 0, Inf) : c \in CMS}
    \cup (IF s.GHG_CONSTRAINT_TYPE = "soft" THEN {VarRec(E, 0, Inf)} ELSE {})
    \cup (IF s.WATER_CONSTRAINT_TYPE = "soft"
          THEN {VarRec(W(reg - 1), 0, Inf) : reg \in WATER_REGIONS} ELSE {})

\* _setup_vars
setup_vars(d, id) ==
    [X_ag_dry_vars_jr |-> setup_ag_vars(d, 0, id),
     X_ag_irr_vars_jr |-> setup_ag_vars(d, 1, id),
     X_non_ag_vars_kr |-> setup_non_ag_vars(d, id),
     X_ag_man_dry_vars_jr |-> setup_ag_management_variables(d, 0, id),
     X_ag_man_irr_vars_jr |-> setup_ag_management_variables(d, 1, id)]


\* ---------------------------------------------- cell-scoped constraints
\* the sum of _add_cell_usage_constraints without the non-agricultural part
cell_usage_vars_ag_only(st, r) ==
    UNION {AgVarsIn(st, 0, j, {r}) : j \in AG_LUS}
    \cup UNION {AgVarsIn(st, 1, j, {r}) : j \in AG_LUS}

\* _add_cell_usage_constraints, for one cell: dry + irr + non-ag == 1
cell_usage_vars(st, r) ==
    UNION {AgVarsIn(st, 0, j, {r}) : j \in AG_LUS}
    \cup UNION {AgVarsIn(st, 1, j, {r}) : j \in AG_LUS}
    \cup UNION {NonAgVarsIn(st, k, {r}) : k \in NON_AG_LUS}

\* the cell-usage constraint as expr <= 1
add_cell_usage_constraint_at_most(st, r, id) ==
    Constr("cell_usage", Key("", 0, 0, r), id,
           cell_usage_vars(st, r), 1, {}, 0, {}, 0, "<=", Scale)

add_cell_usage_constraint(st, r, id) ==
    Constr("cell_usage", Key("", 0, 0, r), id,
           cell_usage_vars(st, r), 1, {}, 0, {}, 0, "=", Scale)

\* the cells of (m, j) in _add_agricultural_management_constraints:
\* ag_lu2cells without `cells`, the eligible ones of `cells` with it
am_constr_cells_all(d, m, j) == ag_lu2cells(d, m, j)
\* the cells of (m, j) taken from the irrigated eligibility for both m
am_constr_cells_of_irr(d, m, j, cells) == {r \in cells : ag_x_mrj(d, 1, r, j) # 0}
am_constr_cells_of(d, m, j, cells) == {r \in cells : ag_x_mrj(d, m, r, j) # 0}

\* one coupling constraint: X_ag_man[am][j_idx, r] <= X_ag[j, r]
coupling_constraint(st, am, m, j_idx, r, id) ==
    Constr("ag_man", Key(am, m, am_j(am, j_idx), r), id,
           ManVarsIn(st, am, m, j_idx, {r}), 1,
           AgVarsIn(st, m, am_j(am, j_idx), {r}), 1, {}, 0, "<=", 0)

\* _add_agricultural_management_constraints(cells=None): every option of
\* am2j, enabled or not
add_agricultural_management_constraints_all(st, d, id) ==
    [r \in Cells |->
        {coupling_constraint(st, x[1], x[2], x[3], r, id) :
            x \in {y \in AM_M_IDX :
                     r \in am_constr_cells_all(d, y[2], am_j(y[1], y[3]))}}]

\* _add_agricultural_management_constraints(cells): the same for `cells`
add_agricultural_management_constraints_of(st, d, cells, id) ==
    [r \in cells |->
        {coupling_constraint(st, x[1], x[2], x[3], r, id) :
            x \in {y \in AM_M_IDX :
                     r \in am_constr_cells_of(d, y[2], am_j(y[1], y[3]), cells)}}]

\* ------------------------------------------------- aggregate constraints
AllAgVars(st, j, cells) == AgVarsIn(st, 0, j, cells) \cup AgVarsIn(st, 1, j, cells)
AllManVars(st, am, j_idx, cells) ==
    ManVarsIn(st, am, 0, j_idx, cells) \cup ManVarsIn(st, am, 1, j_idx, cells)
AM_IDX == {y \in AMS \X AM_IDXS : y[2] \in am_j_idxs(y[1])}
EnabledAM_IDX == {y \in AM_IDX : AG_MANAGEMENTS[y[1]]}
EnabledNonAg == {k \in NON_AG_LUS : NON_AG_LAND_USES[k]}

\* the ceilings over the dryland management-option variables only
add_adoption_limit_constraints_dry_only(st, d, id) ==
    {Constr("adoption_limit", Key(x[1], 0, am_j(x[1], x[2]), 0), id,
            ManVarsIn(st, x[1], 0, x[2], Cells), Scale,
            AllAgVars(st, am_j(x[1], x[2]), Cells),
            ag_man_limits(d, x[1], am_j(x[1], x[2])),
            {}, 0, "<=", 0) : x \in AM_IDX}

\* _add_agricultural_management_adoption_limit_constraints:
\* sum of the option's variables <= limit * sum of the land use's variables
add_agricultural_management_adoption_limit_constraints(st, d, id) ==
    {Constr("adoption_limit", Key(x[1], 0, am_j(x[1], x[2]), 0), id,
            AllManVars(st, x[1], x[2], Cells), Scale,
            AllAgVars(st, am_j(x[1], x[2]), Cells),
            ag_man_limits(d, x[1], am_j(x[1], x[2])),
            {}, 0, "<=", 0) : x \in AM_IDX}

\* total_q_exprs_c[c] without the management-option part ag_man_q_c[c]
total_q_expr_without_man(st, d, c) ==
    UNION {AllAgVars(st, j, Cells) : j \in {i \in AG_LUS : i = c}}
    \cup UNION {NonAgVarsIn(st, k, Cells) : k \in EnabledNonAg}

\* _add_demand_penalty_constraints: total_q_exprs_c[c]; land use j yields
\* product j, which is commodity j; every enabled non-agricultural use
\* contributes to every commodity
total_q_expr(st, d, c) ==
    UNION {AllAgVars(st, j, Cells) : j \in {i \in AG_LUS : i = c}}
    \cup UNION {AllManVars(st, x[1], x[2], Cells) :
                  x \in {y \in EnabledAM_IDX : am_j(y[1], y[2]) = c}}
    \cup UNION {NonAgVarsIn(st, k, Cells) : k \in EnabledNonAg}

\* the demand balance as limits['demand_rescale'][c] - total_q_exprs_c[c] == V[c]
add_demand_penalty_constraints_shortfall(st, d, id) ==
    {Constr("demand", Key("", 0, c, 0), id,
            total_q_expr(st, d, c), yield_coef(d), {}, 0, {V(c)}, 1,
            "=", limit_demand_rescale(d, c)) : c \in CMS}

\* total_q_exprs_c[c] - limits['demand_rescale'][c] == V[c]
add_demand_penalty_constraints(st, d, id) ==
    {Constr("demand", Key("", 0, c, 0), id,
            total_q_expr(st, d, c), yield_coef(d), {}, 0, {V(c)}, 0 - 1,
            "=", limit_demand_rescale(d, c)) : c \in CMS}

\* _get_total_ghg_expr (the off-land constant is left out)
total_ghg_expr(st, d) ==
    UNION {AllAgVars(st, j, Cells) : j \in AG_LUS}
    \cup UNION {AllManVars(st, x[1], x[2], Cells) : x \in EnabledAM_IDX}
    \cup UNION {NonAgVarsIn(st, k, Cells) : k \in EnabledNonAg}

\* _add_ghg_emissions_limit_constraints: [ub |-> .., soft |-> ..];
\* limit - ghg <= E is held as ghg + E >= limit
add_ghg_emissions_limit_constraints(st, d, s, id) ==
    IF s.GHG_EMISSIONS_LIMITS = "off" THEN [ub |-> {}, soft |-> {}]
    ELSE IF s.GHG_CONSTRAINT_TYPE = "hard"
    THEN [ub |-> {Constr("ghg", Key("ub", 0, 0, 0), id,
                         total_ghg_expr(st, d), yield_coef(d), {}, 0, {}, 0,
                         "<=", limit_ghg_rescale(d))},
          soft |-> {}]
    ELSE [ub |-> {},
          soft |-> {Constr("ghg", Key("soft_ub", 0, 0, 0), id,
                           total_ghg_expr(st, d), yield_coef(d), {}, 0,
                           {E}, 0 - 1, "<=", limit_ghg_rescale(d)),
                    Constr("ghg", Key("soft_lb", 0, 0, 0), id,
                           total_ghg_expr(st, d), yield_coef(d), {}, 0,
                           {E}, 1, ">=", limit_ghg_rescale(d))}]

\* _get_water_net_yield_expr_for_region: every non-agricultural index
water_region_indices(reg) == Cells
water_net_yield_expr(st, d, ind) ==
    UNION {AllAgVars(st, j, ind) : j \in AG_LUS}
    \cup UNION {AllManVars(st, x[1], x[2], ind) : x \in EnabledAM_IDX}
    \cup UNION {NonAgVarsIn(st, k, ind) : k \in NON_AG_LUS}

\* the water constraints as yield >= limit for a soft type as well
add_water_usage_limit_constraints_always_hard(st, d, s, id) ==
    IF s.WATER_LIMITS # "on" THEN {}
    ELSE {Constr("water", Key("", 0, 0, reg), id,
                 water_net_yield_expr(st, d, water_region_indices(reg)),
                 yield_coef(d), {}, 0, {}, 0,
                 ">=", limit_water_rescale(d, reg)) : reg \in WATER_REGIONS}

\* _add_water_usage_limit_constraints; limit - yield <= W[reg - 1] is held
\* as yield + W[reg - 1] >= limit
add_water_usage_limit_constraints(st, d, s, id) ==
    IF s.WATER_LIMITS # "on" THEN {}
    ELSE {IF s.WATER_CONSTRAINT_TYPE = "hard"
          THEN Constr("water", Key("", 0, 0, reg), id,
                      water_net_yield_expr(st, d, water_region_indices(reg)),
                      yield_coef(d), {}, 0, {}, 0,
                      ">=", limit_water_rescale(d, reg))
          ELSE Constr("water", Key("", 0, 0, reg), id,
                      water_net_yield_expr(st, d, water_region_indices(reg)),
                      yield_coef(d), {}, 0, {W(reg - 1)}, 1,
                      ">=", limit_water_rescale(d, reg)) :
          reg \in WATER_REGIONS}

\* _add_GBF2_constraints: the management part indexes ag_lu2cells by j_idx
priority_degraded_mask_idx(d) == d.layer
GBF2_expr(st, d) ==
    UNION {AgVarsIn(st, mj[1], mj[2],
                    ag_lu2cells(d, mj[1], mj[2]) \cap priority_degraded_mask_idx(d)) :
              mj \in LM \X AG_LUS}
    \cup UNION {ManVarsIn(st, x[1], x[2], x[3],
                    ag_lu2cells(d, x[2], x[3]) \cap priority_degraded_mask_idx(d)) :
              x \in {y \in AM_M_IDX : AG_MANAGEMENTS[y[1]]}}
    \cup UNION {NonAgVarsIn(st, k,
                    non_ag_lu2cells(d, k) \cap priority_degraded_mask_idx(d)) :
              k \in NON_AG_LUS}

add_GBF2_constraints(st, d, s, id) ==
    IF s.BIODIVERSITY_TARGET_GBF_2 = "off" THEN {}
    ELSE {Constr("GBF2", Key("", 0, 0, 0), id, GBF2_expr(st, d), yield_coef(d),
                 {}, 0, {}, 0, ">=", limit_GBF2_rescale(d))}

\* the expression of a layer in GBF3, GBF4 and GBF8: every entry of the
\* five arrays at the cells ind
layer_expr(st, ind) == UNION {CellVars(st, r) : r \in ind}

\* _add_GBF3_major_vegetation_group_limit_constraints: one vegetation group,
\* skipped when its target is 0
add_GBF3_constraints(st, d, s, id) ==
    IF s.BIODIVERSITY_TARGET_GBF_3 = "off" THEN {}
    ELSE IF limit_GBF3_rescale(d) = 0 THEN {}
    ELSE {Constr("GBF3", Key("", 0, 0, 0), id, layer_expr(st, GBF3_ind(d)),
                 yield_coef(d), {}, 0, {}, 0, ">=", limit_GBF3_rescale(d))}

\* _add_GBF4_snes_constraints: one species, skipped when its layer is empty
add_GBF4_snes_constraints(st, d, s, id) ==
    IF s.BIODIVERSITY_TARGET_GBF_4_SNES # "on" THEN {}
    ELSE IF GBF4_SNES_ind(d) = {} THEN {}
    ELSE {Constr("GBF4_SNES", Key("", 0, 0, 0), id,
                 layer_expr(st, GBF4_SNES_ind(d)),
                 yield_coef(d), {}, 0, {}, 0, ">=", limit_GBF4_SNES_rescale(d))}

\* _add_GBF4_ecnes_constraints: one community, skipped when its layer is empty
add_GBF4_ecnes_constraints(st, d, s, id) ==
    IF s.BIODIVERSITY_TARGET_GBF_4_ECNES # "on" THEN {}
    ELSE IF GBF4_ECNES_ind(d) = {} THEN {}
    ELSE {Constr("GBF4_ECNES", Key("", 0, 0, 0), id,
                 layer_expr(st, GBF4_ECNES_ind(d)),
                 yield_coef(d), {}, 0, {}, 0, ">=", limit_GBF4_ECNES_rescale(d))}

\* _add_GBF8_constraints: one species
add_GBF8_constraints(st, d, s, id) ==
    IF s.BIODIVERSITY_TARGET_GBF_8 # "on" THEN {}
    ELSE {Constr("GBF8", Key("", 0, 0, 0), id,
                 layer_expr(st, GBF8_species_indices(d)),
                 yield_coef(d), {}, 0, {}, 0, ">=", limit_GBF8_rescale(d))}

\* _add_biodiversity_constraints after GBF2
add_biodiversity_constraints(st, d, s, id) ==
    [bio_GBF3_constrs |-> add_GBF3_constraints(st, d, s, id),
     bio_GBF4_SNES_constrs |-> add_GBF4_snes_constraints(st, d, s, id),
     bio_GBF4_ECNES_constrs |-> add_GBF4_ecnes_constraints(st, d, s, id),
     bio_GBF8_constrs |-> add_GBF8_constraints(st, d, s, id)]

\* _add_regional_adoption_constraints: one region of all cells, with a cap
\* on agricultural land use 0 and on non-agricultural land use 0
add_regional_adoption_constraints(st, d, s, id) ==
    IF s.REGIONAL_ADOPTION_CONSTRAINTS # "on" THEN {}
    ELSE {Constr("reg_adopt_ag", Key("", 0, 0, 0), id,
                 AllAgVars(st, 0, Cells), 1, {}, 0, {}, 0,
                 "<=", limit_regional(d)),
          Constr("reg_adopt_non_ag", Key("", 0, 0, 0), id,
                 NonAgVarsIn(st, 0, Cells), 1, {}, 0, {}, 0,
                 "<=", limit_regional(d))}

\* --------------------------------------------------------------- objective
\* a linear expression: the coefficient of each of its variables
Coef(e, v) == IF v \in DOMAIN e THEN e[v] ELSE 0

\* _setup_economy_objective: the agricultural and management entries at
\* ag_lu2cells, the enabled non-agricultural entries at non_ag_lu2cells
economy_vars(st, d) ==
    UNION {AgVarsIn(st, mj[1], mj[2], ag_lu2cells(d, mj[1], mj[2])) :
              mj \in LM \X AG_LUS}
    \cup UNION {ManVarsIn(st, x[1], x[2], x[3],
                          ag_lu2cells(d, x[2], am_j(x[1], x[3]))) :
                  x \in {y \in AM_M_IDX : AG_MANAGEMENTS[y[1]]}}
    \cup UNION {NonAgVarsIn(st, k, non_ag_lu2cells(d, k)) : k \in EnabledNonAg}

setup_economy_objective(st, d) ==
    [v \in economy_vars(st, d) |-> economy_coef(d)]

\* _setup_biodiversity_objective: every entry of the agricultural arrays, of
\* the enabled management options and of the enabled non-agricultural uses
biodiversity_vars(st) ==
    UNION {AgVarsIn(st, mj[1], mj[2], Cells) : mj \in LM \X AG_LUS}
    \cup UNION {ManVarsIn(st, x[1], x[2], x[3], Cells) :
                  x \in {y \in AM_M_IDX : AG_MANAGEMENTS[y[1]]}}
    \cup UNION {NonAgVarsIn(st, k, Cells) : k \in EnabledNonAg}

setup_biodiversity_objective(st, d) ==
    [v \in biodiversity_vars(st) |-> biodiv_coef(d)]

\* _setup_penalty_objectives without the GHG term for a soft type
setup_penalty_objectives_without_ghg(d, s) ==
    [num |-> [u \in {V(c) : c \in CMS}
                    \cup (IF s.WATER_CONSTRAINT_TYPE = "soft"
                          THEN {W(reg - 1) : reg \in WATER_REGIONS} ELSE {}) |->
                 CASE u.kind = "V" -> demand_penalty_coef(d, u.j) * SOLVER_WEIGHT_DEMAND
                   [] u.kind = "W" -> water_penalty_coef(d) * SOLVER_WEIGHT_WATER],
     ones |-> (IF s.WATER_CONSTRAINT_TYPE = "soft" THEN 1 ELSE 0),
     weight_demand |-> SOLVER_WEIGHT_DEMAND,
     weight_ghg |-> 0,
     weight_water |->
        IF s.WATER_CONSTRAINT_TYPE = "soft" THEN SOLVER_WEIGHT_WATER ELSE 0]

\* _setup_penalty_objectives: (sum of num[u] * u + ones) divided by the sum
\* of the three weights; one water region, so the water penalty is divided
\* by 1
setup_penalty_objectives(d, s) ==
    [num |-> [u \in {V(c) : c \in CMS}
                    \cup (IF s.GHG_CONSTRAINT_TYPE = "soft" THEN {E} ELSE {})
                    \cup (IF s.WATER_CONSTRAINT_TYPE = "soft"
                          THEN {W(reg - 1) : reg \in WATER_REGIONS} ELSE {}) |->
                 CASE u.kind = "V" -> demand_penalty_coef(d, u.j) * SOLVER_WEIGHT_DEMAND
                   [] u.kind = "E" -> ghg_penalty_coef(d) * SOLVER_WEIGHT_GHG
                   [] u.kind = "W" -> water_penalty_coef(d) * SOLVER_WEIGHT_WATER],
     ones |-> (IF s.GHG_CONSTRAINT_TYPE = "soft" THEN 1 ELSE 0)
              + (IF s.WATER_CONSTRAINT_TYPE = "soft" THEN 1 ELSE 0),
     weight_demand |-> SOLVER_WEIGHT_DEMAND,
     weight_ghg |-> IF s.GHG_CONSTRAINT_TYPE = "soft" THEN SOLVER_WEIGHT_GHG ELSE 0,
     weight_water |->
        IF s.WATER_CONSTRAINT_TYPE = "soft" THEN SOLVER_WEIGHT_WATER ELSE 0]

\* obj_wrap * (1 - SOLVE_WEIGHT_BETA), the biodiversity term entering with
\* the sign bio_sign
objective_wrap(eco, bio, bio_sign) ==
    [v \in DOMAIN eco \cup DOMAIN bio |->
        (SOLVE_WEIGHT_ALPHA * Coef(eco, v)
         + bio_sign * (WeightOne - SOLVE_WEIGHT_ALPHA) * Coef(bio, v))
        * (WeightOne - SOLVE_WEIGHT_BETA)]

\* _setup_objective with the biodiversity term of maxprofit subtracted
setup_objective_bio_subtracted(st, d, s) ==
    IF s.OBJECTIVE = "mincost"
    THEN [sense |-> "MINIMIZE",
          alloc |-> objective_wrap(setup_economy_objective(st, d),
                                   setup_biodiversity_objective(st, d), 0 - 1),
          penalty_weight |-> SOLVE_WEIGHT_BETA,
          penalties |-> setup_penalty_objectives(d, s)]
    ELSE [sense |-> "MAXIMIZE",
          alloc |-> objective_wrap(setup_economy_objective(st, d),
                                   setup_biodiversity_objective(st, d), 0 - 1),
          penalty_weight |-> 0 - SOLVE_WEIGHT_BETA,
          penalties |-> setup_penalty_objectives(d, s)]

\* _setup_objective for a known settings.OBJECTIVE: the sense, the
\* coefficients of the allocation variables, and the penalties with their
\* weight
setup_objective(st, d, s) ==
    IF s.OBJECTIVE = "mincost"
    THEN [sense |-> "MINIMIZE",
          alloc |-> objective_wrap(setup_economy_objective(st, d),
                                   setup_biodiversity_objective(st, d), 0 - 1),
          penalty_weight |-> SOLVE_WEIGHT_BETA,
          penalties |-> setup_penalty_objectives(d, s)]
    ELSE [sense |-> "MAXIMIZE",
          alloc |-> objective_wrap(setup_economy_objective(st, d),
                                   setup_biodiversity_objective(st, d), 1),
          penalty_weight |-> 0 - SOLVE_WEIGHT_BETA,
          penalties |-> setup_penalty_objectives(d, s)]

\* the model before the first setObjective
NoObjective == [sense |-> "none"]

\* ------------------------------------------------------ configuration errors
\* the ValueError of _add_ghg_emissions_limit_constraints
ghg_type_unknown(s) ==
    s.GHG_EMISSIONS_LIMITS # "off" /\ s.GHG_CONSTRAINT_TYPE \notin {"hard", "soft"}
\* the ValueError of _add_water_usage_limit_constraints, in the first region
water_type_unknown(s) ==
    /\ s.WATER_LIMITS = "on"
    /\ WATER_REGIONS # {}
    /\ s.WATER_CONSTRAINT_TYPE \notin {"hard", "soft"}
\* the ValueError of _setup_objective
objective_unknown(s) == s.OBJECTIVE \notin {"mincost", "maxprofit"}

\* ------------------------------------------------------------------ state
store_vars == <<X_ag_dry_vars_jr, X_ag_irr_vars_jr, X_non_ag_vars_kr,
                X_ag_man_dry_vars_jr, X_ag_man_irr_vars_jr>>
cell_registry_vars == <<cell_usage_constraint_r, ag_management_constraints_r>>
aggregate_registry_vars ==
    <<adoption_limit_constraints, demand_penalty_constraints,
      water_limit_constraints, ghg_consts_ub, ghg_consts_soft,
      bio_GBF2_constrs, regional_adoption_constrs, bio_GBF3_constrs,
      bio_GBF4_SNES_constrs, bio_GBF4_ECNES_constrs, bio_GBF8_constrs>>
vars == <<pc, year, settings, input_data, store_vars, gurobi_vars,
          gurobi_constrs, objective, cell_registry_vars, aggregate_registry_vars,
          updated_cells, solution, deviation, decoded>>

\* the variable store of the current state
store ==
    [X_ag_dry_vars_jr |-> X_ag_dry_vars_jr,
     X_ag_irr_vars_jr |-> X_ag_irr_vars_jr,
     X_non_ag_vars_kr |-> X_non_ag_vars_kr,
     X_ag_man_dry_vars_jr |-> X_ag_man_dry_vars_jr,
     X_ag_man_irr_vars_jr |-> X_ag_man_irr_vars_jr]

\* the solver object of the current state: store, model and lookups
model ==
    [store |-> store,
     gurobi_vars |-> gurobi_vars,
     gurobi_constrs |-> gurobi_constrs,
     cell_usage_constraint_r |-> cell_usage_constraint_r,
     ag_management_constraints_r |-> ag_management_constraints_r,
     aggregates |->
        [adoption_limit_constraints |-> adoption_limit_constraints,
         demand_penalty_constraints |-> demand_penalty_constraints,
         water_limit_constraints |-> water_limit_constraints,
         ghg_consts_ub |-> ghg_consts_ub,
         ghg_consts_soft |-> ghg_consts_soft,
         bio_GBF2_constrs |-> bio_GBF2_constrs,
         regional_adoption_constrs |-> regional_adoption_constrs,
         bio_GBF3_constrs |-> bio_GBF3_constrs,
         bio_GBF4_SNES_constrs |-> bio_GBF4_SNES_constrs,
         bio_GBF4_ECNES_constrs |-> bio_GBF4_ECNES_constrs,
         bio_GBF8_constrs |-> bio_GBF8_constrs]]

Model(st, gv, gc, cu, am, agg) ==
    [store |-> st, gurobi_vars |-> gv, gurobi_constrs |-> gc,
     cell_usage_constraint_r |-> cu, ag_management_constraints_r |-> am,
     aggregates |-> agg]

\* the aggregate families built over a store from the data of one year
pack_aggregates(adoption, demand, water, ghg, gbf2, regional, bio) ==
    [adoption_limit_constraints |-> adoption,
     demand_penalty_constraints |-> demand,
     water_limit_constraints |-> water,
     ghg_consts_ub |-> ghg.ub,
     ghg_consts_soft |-> ghg.soft,
     bio_GBF2_constrs |-> gbf2,
     regional_adoption_constrs |-> regional,
     bio_GBF3_constrs |-> bio.bio_GBF3_constrs,
     bio_GBF4_SNES_constrs |-> bio.bio_GBF4_SNES_constrs,
     bio_GBF4_ECNES_constrs |-> bio.bio_GBF4_ECNES_constrs,
     bio_GBF8_constrs |-> bio.bio_GBF8_constrs]

aggregate_constraints(st, d, s, id) ==
    pack_aggregates(
        add_agricultural_management_adoption_limit_constraints(st, d, id),
        add_demand_penalty_constraints(st, d, id),
        add_water_usage_limit_constraints(st, d, s, id),
        add_ghg_emissions_limit_constraints(st, d, s, id),
        add_GBF2_constraints(st, d, s, id),
        add_regional_adoption_constraints(st, d, s, id),
        add_biodiversity_constraints(st, d, s, id))

AllOf(agg) ==
    agg.adoption_limit_constraints \cup agg.demand_penalty_constraints
    \cup agg.water_limit_constraints \cup agg.ghg_consts_ub
    \cup agg.ghg_consts_soft \cup agg.bio_GBF2_constrs
    \cup agg.regional_adoption_constrs
    \cup agg.bio_GBF3_constrs \cup agg.bio_GBF4_SNES_constrs
    \cup agg.bio_GBF4_ECNES_constrs \cup agg.bio_GBF8_constrs

AllIn(f) == UNION {f[r] : r \in DOMAIN f}

\* LutoSolver.__init__: empty stores and lookups
EmptyStore ==
    [X_ag_dry_vars_jr |-> [j \in AG_LUS |-> [r \in Cells |-> NoVar]],
     X_ag_irr_vars_jr |-> [j \in AG_LUS |-> [r \in Cells |-> NoVar]],
     X_non_ag_vars_kr |-> [k \in NON_AG_LUS |-> [r \in Cells |-> NoVar]],
     X_ag_man_dry_vars_jr |->
        [am \in AMS |-> [j_idx \in am_j_idxs(am) |-> [r \in Cells |-> NoVar]]],
     X_ag_man_irr_vars_jr |->
        [am \in AMS |-> [j_idx \in am_j_idxs(am) |-> [r \in Cells |-> NoVar]]]]

EmptyModel ==
    Model(EmptyStore, {}, {}, [r \in Cells |-> {}], [r \in Cells |-> {}],
          pack_aggregates({}, {}, {}, [ub |-> {}, soft |-> {}], {}, {},
                          [bio_GBF3_constrs |-> {}, bio_GBF4_SNES_constrs |-> {},
                           bio_GBF4_ECNES_constrs |-> {}, bio_GBF8_constrs |-> {}]))

IsModel(mdl) ==
    /\ X_ag_dry_vars_jr = mdl.store.X_ag_dry_vars_jr
    /\ X_ag_irr_vars_jr = mdl.store.X_ag_irr_vars_jr
    /\ X_non_ag_vars_kr = mdl.store.X_non_ag_vars_kr
    /\ X_ag_man_dry_vars_jr = mdl.store.X_ag_man_dry_vars_jr
    /\ X_ag_man_irr_vars_jr = mdl.store.X_ag_man_irr_vars_jr
    /\ gurobi_vars = mdl.gurobi_vars
    /\ gurobi_constrs = mdl.gurobi_constrs
    /\ cell_usage_constraint_r = mdl.cell_usage_constraint_r
    /\ ag_management_constraints_r = mdl.ag_management_constraints_r
    /\ adoption_limit_constraints = mdl.aggregates.adoption_limit_constraints
    /\ demand_penalty_constraints = mdl.aggregates.demand_penalty_constraints
    /\ water_limit_constraints = mdl.aggregates.water_limit_constraints
    /\ ghg_consts_ub = mdl.aggregates.ghg_consts_ub
    /\ ghg_consts_soft = mdl.aggregates.ghg_consts_soft
    /\ bio_GBF2_constrs = mdl.aggregates.bio_GBF2_constrs
    /\ regional_adoption_constrs = mdl.aggregates.regional_adoption_constrs
    /\ bio_GBF3_constrs = mdl.aggregates.bio_GBF3_constrs
    /\ bio_GBF4_SNES_constrs = mdl.aggregates.bio_GBF4_SNES_constrs
    /\ bio_GBF4_ECNES_constrs = mdl.aggregates.bio_GBF4_ECNES_constrs
    /\ bio_GBF8_constrs = mdl.aggregates.bio_GBF8_constrs

SetModel(mdl) ==
    /\ X_ag_dry_vars_jr' = mdl.store.X_ag_dry_vars_jr
    /\ X_ag_irr_vars_jr' = mdl.store.X_ag_irr_vars_jr
    /\ X_non_ag_vars_kr' = mdl.store.X_non_ag_vars_kr
    /\ X_ag_man_dry_vars_jr' = mdl.store.X_ag_man_dry_vars_jr
    /\ X_ag_man_irr_vars_jr' = mdl.store.X_ag_man_irr_vars_jr
    /\ gurobi_vars' = mdl.gurobi_vars
    /\ gurobi_constrs' = mdl.gurobi_constrs
    /\ cell_usage_constraint_r' = mdl.cell_usage_constraint_r
    /\ ag_management_constraints_r' = mdl.ag_management_constraints_r
    /\ adoption_limit_constraints' = mdl.aggregates.adoption_limit_constraints
    /\ demand_penalty_constraints' = mdl.aggregates.demand_penalty_constraints
    /\ water_limit_constraints' = mdl.aggregates.water_limit_constraints
    /\ ghg_consts_ub' = mdl.aggregates.ghg_consts_ub
    /\ ghg_consts_soft' = mdl.aggregates.ghg_consts_soft
    /\ bio_GBF2_constrs' = mdl.aggregates.bio_GBF2_constrs
    /\ regional_adoption_constrs' = mdl.aggregates.regional_adoption_constrs
    /\ bio_GBF3_constrs' = mdl.aggregates.bio_GBF3_constrs
    /\ bio_GBF4_SNES_constrs' = mdl.aggregates.bio_GBF4_SNES_constrs
    /\ bio_GBF4_ECNES_constrs' = mdl.aggregates.bio_GBF4_ECNES_constrs
    /\ bio_GBF8_constrs' = mdl.aggregates.bio_GBF8_constrs

\* no solve of the current model yet
NoSolution == [r \in {} |-> 0]
NoDecoded == [status |-> "none"]

InitWith(inputs, sets) ==
    /\ pc = "unbuilt"
    /\ year = 0
    /\ settings \in sets
    /\ input_data \in inputs
    /\ IsModel(EmptyModel)
    /\ objective = NoObjective
    /\ updated_cells = {}
    /\ solution = NoSolution
    /\ deviation = NoSolution
    /\ decoded = NoDecoded

Init == InitWith(Inputs(MainProfiles), SettingsProfiles)

\* ---------------------------------------------------------------- formulate
\* _setup_constraints over the store st that _setup_vars built
setup_constraints(st, gv, cu, am, agg) ==
    Model(st, gv, AllIn(cu) \cup AllIn(am) \cup AllOf(agg), cu, am, agg)

\* the aggregate families of _setup_constraints: all of them, or the ones
\* added before the ValueError of the GHG type or of the water type
EmptyBio ==
    [bio_GBF3_constrs |-> {}, bio_GBF4_SNES_constrs |-> {},
     bio_GBF4_ECNES_constrs |-> {}, bio_GBF8_constrs |-> {}]

setup_aggregate_constraints(st, d, s, id) ==
    IF ghg_type_unknown(s)
    THEN pack_aggregates(
            add_agricultural_management_adoption_limit_constraints(st, d, id),
            add_demand_penalty_constraints(st, d, id),
            {}, [ub |-> {}, soft |-> {}], {}, {}, EmptyBio)
    ELSE IF water_type_unknown(s)
    THEN pack_aggregates(
            add_agricultural_management_adoption_limit_constraints(st, d, id),
            add_demand_penalty_constraints(st, d, id),
            {},
            add_ghg_emissions_limit_constraints(st, d, s, id),
            add_GBF2_constraints(st, d, s, id),
            add_regional_adoption_constraints(st, d, s, id),
            add_biodiversity_constraints(st, d, s, id))
    ELSE aggregate_constraints(st, d, s, id)

formulated_over(st, d, s, id) ==
    setup_constraints(
        st,
        AddedVars(st, d, Cells) \cup setup_deviation_penalties(s),
        [r \in Cells |-> {add_cell_usage_constraint(st, r, id)}],
        add_agricultural_management_constraints_all(st, d, id),
        setup_aggregate_constraints(st, d, s, id))

\* whether formulate ends in a ValueError
formulate_raises(s) ==
    ghg_type_unknown(s) \/ water_type_unknown(s) \/ objective_unknown(s)

\* the model formulate builds from the data d, every handle created by the
\* call id
formulated(d, s, id) == formulated_over(setup_vars(d, id), d, s, id)

\* formulate: _setup_vars, _setup_constraints, _setup_objective; a
\* ValueError leaves what the call has added so far
formulate ==
    /\ pc = "unbuilt"
    /\ SetModel(formulated(input_data, settings, 1))
    /\ pc' = IF formulate_raises(settings) THEN "failed" ELSE "formulated"
    /\ objective' = IF formulate_raises(settings) THEN NoObjective
                    ELSE setup_objective(store', input_data, settings)
    /\ solution' = NoSolution
    /\ deviation' = NoSolution
    /\ decoded' = NoDecoded
    /\ UNCHANGED <<year, settings, input_data, updated_cells>>

\* ------------------------------------------------------- update_formulation
\* the skip test with the land-management comparison negated
cell_unchanged_lm_negated(old, d, r) ==
    /\ lumap(old)[r] = lumap(d)[r]
    /\ lmmap(old)[r] # lmmap(d)[r]
    /\ ag_x_slice(old, r) = ag_x_slice(d, r)
    /\ non_ag_x_slice(old, r) = non_ag_x_slice(d, r)

\* the skip test without the land-management comparison
cell_unchanged_without_lmmap(old, d, r) ==
    /\ lumap(old)[r] = lumap(d)[r]
    /\ ag_x_slice(old, r) = ag_x_slice(d, r)
    /\ non_ag_x_slice(old, r) = non_ag_x_slice(d, r)
    /\ \A k \in {i \in NON_AG_LUS : ~NON_AG_LAND_USES_REVERSIBLE[i]} :
          non_ag_lb_rk(old, r, k) = non_ag_lb_rk(d, r, k)
    /\ \A am \in {a \in {i \in AMS : AG_MANAGEMENTS[i]} : ~AG_MANAGEMENTS_REVERSIBLE[a]} :
          ag_man_lb_slice(old, am, r) = ag_man_lb_slice(d, am, r)

\* the skip test without the lower-bound comparisons
cell_unchanged_without_lb(old, d, r) ==
    /\ lumap(old)[r] = lumap(d)[r]
    /\ lmmap(old)[r] = lmmap(d)[r]
    /\ ag_x_slice(old, r) = ag_x_slice(d, r)
    /\ non_ag_x_slice(old, r) = non_ag_x_slice(d, r)

\* the test of _update_variables that skips a cell
cell_unchanged(old, d, r) ==
    /\ lumap(old)[r] = lumap(d)[r]
    /\ lmmap(old)[r] = lmmap(d)[r]
    /\ ag_x_slice(old, r) = ag_x_slice(d, r)
    /\ non_ag_x_slice(old, r) = non_ag_x_slice(d, r)
    /\ \A k \in {i \in NON_AG_LUS : ~NON_AG_LAND_USES_REVERSIBLE[i]} :
          non_ag_lb_rk(old, r, k) = non_ag_lb_rk(d, r, k)
    /\ \A am \in {a \in {i \in AMS : AG_MANAGEMENTS[i]} : ~AG_MANAGEMENTS_REVERSIBLE[a]} :
          ag_man_lb_slice(old, am, r) = ag_man_lb_slice(d, am, r)

\* the cells _update_variables rebuilds and returns
changed_cells(old, d) == {r \in Cells : ~cell_unchanged(old, d, r)}

\* whether the rebuild of cell r creates the variable of (am, m, j_idx):
\* for (m, j) in cells2ag_lu[r], for every enabled am of j2am[j], at
\* position am2j[am].index(j)
update_creates_am_var(d, am, m, j_idx, r) ==
    \E mj \in cells2ag_lu(d, r) :
        /\ mj[1] = m
        /\ am \in j2am(mj[2])
        /\ AG_MANAGEMENTS[am]
        /\ am_index(am, mj[2]) = j_idx

\* the arrays after _update_variables: the entries of the changed cells are
\* reset and refilled from the current data
update_store(st, d, changed, id) ==
    [X_ag_dry_vars_jr |-> [j \in AG_LUS |-> [r \in Cells |->
        IF r \notin changed THEN st.X_ag_dry_vars_jr[j][r]
        ELSE IF ag_x_mrj(d, 0, r, j) # 0
             THEN Var("X_ag", "", 0, j, r, id) ELSE NoVar]],
     X_ag_irr_vars_jr |-> [j \in AG_LUS |-> [r \in Cells |->
        IF r \notin changed THEN st.X_ag_irr_vars_jr[j][r]
        ELSE IF ag_x_mrj(d, 1, r, j) # 0
             THEN Var("X_ag", "", 1, j, r, id) ELSE NoVar]],
     X_non_ag_vars_kr |-> [k \in NON_AG_LUS |-> [r \in Cells |->
        IF r \notin changed THEN st.X_non_ag_vars_kr[k][r]
        ELSE IF NON_AG_LAND_USES[k] /\ non_ag_x_rk(d, r, k) # 0
             THEN Var("X_non_ag", "", 0, k, r, id) ELSE NoVar]],
     X_ag_man_dry_vars_jr |->
        [am \in AMS |-> [j_idx \in am_j_idxs(am) |-> [r \in Cells |->
            IF r \notin changed THEN st.X_ag_man_dry_vars_jr[am][j_idx][r]
            ELSE IF update_creates_am_var(d, am, 0, j_idx, r)
                 THEN Var("X_ag_man", am, 0, am_j(am, j_idx), r, id) ELSE NoVar]]],
     X_ag_man_irr_vars_jr |->
        [am \in AMS |-> [j_idx \in am_j_idxs(am) |-> [r \in Cells |->
            IF r \notin changed THEN st.X_ag_man_irr_vars_jr[am][j_idx][r]
            ELSE IF update_creates_am_var(d, am, 1, j_idx, r)
                 THEN Var("X_ag_man", am, 1, am_j(am, j_idx), r, id) ELSE NoVar]]]]

\* gurobi_model.remove of the variables of a list
remove_vars(gv, removed) == {x \in gv : x.v \notin removed}

\* the variables of the model after _update_variables
update_variables(gv, st, st1, d, changed) ==
    remove_vars(gv, UNION {CellVars(st, r) : r \in changed})
    \cup AddedVars(st1, d, changed)

\* whether _update_constraints does anything for the returned cells
constraints_need_updating(changed) == changed # {}

\* the removals of _update_constraints without the soft GHG constraints
removed_constraints_without_ghg_soft(cur, changed) ==
    UNION {cur.cell_usage_constraint_r[r] : r \in changed}
    \cup UNION {cur.ag_management_constraints_r[r] : r \in changed}
    \cup (AllOf(cur.aggregates) \ cur.aggregates.ghg_consts_soft)

\* the removal that keeps the management constraints of the changed cells
removed_constraints_without_management(cur, changed) ==
    UNION {cur.cell_usage_constraint_r[r] : r \in changed}
    \cup AllOf(cur.aggregates)

\* what _update_constraints removes from the model
removed_constraints(cur, changed) ==
    UNION {cur.cell_usage_constraint_r[r] : r \in changed}
    \cup UNION {cur.ag_management_constraints_r[r] : r \in changed}
    \cup AllOf(cur.aggregates)

rebuilt_constraints(cur, st1, gv, changed, cu, am, agg) ==
    Model(st1, gv,
          (cur.gurobi_constrs \ removed_constraints(cur, changed))
              \cup AllIn(cu) \cup AllIn(am) \cup AllOf(agg),
          [r \in Cells |-> IF r \in changed THEN cu[r]
                           ELSE cur.cell_usage_constraint_r[r]],
          [r \in Cells |-> IF r \in changed THEN am[r]
                           ELSE cur.ag_management_constraints_r[r]],
          agg)

\* _update_constraints rebuilding the cell-scoped constraints of every cell
update_constraints_all_cells(cur, st1, gv, d, s, id, changed) ==
    IF constraints_need_updating(changed)
    THEN rebuilt_constraints(
            cur, st1, gv, Cells,
            [r \in Cells |-> {add_cell_usage_constraint(st1, r, id)}],
            add_agricultural_management_constraints_of(st1, d, Cells, id),
            aggregate_constraints(st1, d, s, id))
    ELSE Model(st1, gv, cur.gurobi_constrs, cur.cell_usage_constraint_r,
               cur.ag_management_constraints_r, cur.aggregates)

\* _update_constraints replacing the constraints of the changed cells only
update_constraints_cells_only(cur, st1, gv, d, s, id, changed) ==
    IF constraints_need_updating(changed)
    THEN Model(st1, gv,
               (cur.gurobi_constrs
                    \ (UNION {cur.cell_usage_constraint_r[r] : r \in changed}
                       \cup UNION {cur.ag_management_constraints_r[r] : r \in changed}))
                   \cup UNION {{add_cell_usage_constraint(st1, r, id)} : r \in changed}
                   \cup AllIn(add_agricultural_management_constraints_of(st1, d, changed, id)),
               [r \in Cells |-> IF r \in changed
                                THEN {add_cell_usage_constraint(st1, r, id)}
                                ELSE cur.cell_usage_constraint_r[r]],
               [r \in Cells |->
                   IF r \in changed
                   THEN add_agricultural_management_constraints_of(st1, d, changed, id)[r]
                   ELSE cur.ag_management_constraints_r[r]],
               cur.aggregates)
    ELSE Model(st1, gv, cur.gurobi_constrs, cur.cell_usage_constraint_r,
               cur.ag_management_constraints_r, cur.aggregates)

\* _update_constraints(updated_cells) over the updated store st1
update_constraints(cur, st1, gv, d, s, id, changed) ==
    IF constraints_need_updating(changed)
    THEN rebuilt_constraints(
            cur, st1, gv, changed,
            [r \in changed |-> {add_cell_usage_constraint(st1, r, id)}],
            add_agricultural_management_constraints_of(st1, d, changed, id),
            aggregate_constraints(st1, d, s, id))
    ELSE Model(st1, gv, cur.gurobi_constrs, cur.cell_usage_constraint_r,
               cur.ag_management_constraints_r, cur.aggregates)

updated_over(cur, st1, d, s, id, changed) ==
    update_constraints(
        cur, st1, update_variables(cur.gurobi_vars, cur.store, st1, d, changed),
        d, s, id, changed)

updated_for(cur, d, s, id, changed) ==
    updated_over(cur, update_store(cur.store, d, changed, id), d, s, id, changed)

\* the solver object after update_formulation(d, old state) by the call id
updated(cur, old, d, s, id) == updated_for(cur, d, s, id, changed_cells(old, d))

update_formulation(d) ==
    /\ pc = "formulated"
    /\ year < MaxUpdates
    /\ SetModel(updated(model, input_data, d, settings, year + 2))
    /\ objective' = setup_objective(store', d, settings)
    /\ updated_cells' = changed_cells(input_data, d)
    /\ input_data' = d
    /\ year' = year + 1
    /\ solution' = NoSolution
    /\ deviation' = NoSolution
    /\ decoded' = NoDecoded
    /\ UNCHANGED <<pc, settings>>

\* ------------------------------------------------------------------- solve
RECURSIVE SumOver(_, _)
SumOver(f, S) ==
    IF S = {} THEN 0
    ELSE LET v == CHOOSE x \in S : TRUE IN f[v] + SumOver(f, S \ {v})

\* a solution gives every cell the values of the cell's variables
ValueOf(sol, vs) ==
    SumOver([r \in Cells |-> SumOver(sol[r], {v \in vs : v.r = r})], Cells)

Compare(lhs, sense, rhs) ==
    CASE sense = "=" -> lhs = rhs
      [] sense = "<=" -> lhs <= rhs
      [] sense = ">=" -> lhs >= rhs

\* the allocation part of a constraint under a solution
Lhs(c, sol) == c.cpos * ValueOf(sol, c.pos) - c.cneg * ValueOf(sol, c.neg)

\* the values a deviation variable is searched in: no expression exceeds it
MaxDeviation ==
    MaxYr * Scale * NCells
    * (Cardinality(AM_M_IDX) + Cardinality(LM \X AG_LUS) + Cardinality(NON_AG_LUS))

\* a constraint without deviation variables holds under the solution; the
\* constraints of one deviation variable hold for one value of it
Satisfies(gc, sol) ==
    /\ \A c \in {x \in gc : x.dev = {}} : Compare(Lhs(c, sol), c.sense, c.rhs)
    /\ \A u \in UNION {c.dev : c \in gc} :
          \E e \in 0 .. MaxDeviation :
              \A c \in {x \in gc : u \in x.dev} :
                  Compare(Lhs(c, sol) + c.cdev * e, c.sense, c.rhs)

\* the values of the variables of cell r within their bounds that satisfy
\* the constraints over variables of r alone
cell_values(gv, gc, r) ==
    {f \in [{x.v : x \in {y \in gv : y.v.r = r /\ y.v.kind \in {"X_ag", "X_non_ag", "X_ag_man"}}}
                -> 0 .. Scale] :
        /\ \A x \in gv : x.v \in DOMAIN f => (x.lb <= f[x.v] /\ f[x.v] <= x.ub)
        /\ \A c \in gc :
              (c.dev = {} /\ c.pos \cup c.neg \subseteq DOMAIN f)
              => Compare(c.cpos * SumOver(f, c.pos) - c.cneg * SumOver(f, c.neg),
                         c.sense, c.rhs)}

cell_constraints(mdl) ==
    AllIn(mdl.cell_usage_constraint_r) \cup AllIn(mdl.ag_management_constraints_r)

feasible_over(gc, cand) ==
    {sol \in [Cells -> UNION {cand[r] : r \in Cells}] :
        /\ \A r \in Cells : sol[r] \in cand[r]
        /\ Satisfies(gc, sol)}

\* the assignments gurobi_model.optimize() chooses among: within the bounds
\* of every variable and satisfying every constraint of the model
feasible(mdl) ==
    feasible_over(mdl.gurobi_constrs,
                  [r \in Cells |-> cell_values(mdl.gurobi_vars, cell_constraints(mdl), r)])

\* the values of the deviation variable u that satisfy its bounds and its
\* constraints under the solution
deviation_values_of(gv, gc, sol, u) ==
    {e \in 0 .. MaxDeviation :
        /\ \A x \in gv : x.v = u => (x.lb <= e /\ e <= x.ub)
        /\ \A c \in {x \in gc : u \in x.dev} :
              Compare(Lhs(c, sol) + c.cdev * e, c.sense, c.rhs)}

RECURSIVE deviation_values(_, _, _, _)
\* the values of the deviation variables `us` next to the solution
deviation_values(gv, gc, sol, us) ==
    IF us = {} THEN {NoSolution}
    ELSE LET u == CHOOSE x \in us : TRUE
         IN {(u :> e) @@ f :
                e \in deviation_values_of(gv, gc, sol, u),
                f \in deviation_values(gv, gc, sol, us \ {u})}

deviation_vars(gv) == {x.v : x \in {y \in gv : y.v.kind \in {"V", "E", "W"}}}

\* ------------------------------------------------- solve: the decoder
\* Var.X of an entry of the arrays (the values of the model, multiples of
\* 1 / Scale, are kept by astype(np.float32))
X(sol, v) == sol[v.r][v]

\* the cells solve reads the entries of (am, m, j) at
solve_am_cells(d, am, m, j) ==
    IF am = "Savanna Burning"
    THEN ag_lu2cells(d, m, j) \cap savanna_eligible_r(d)
    ELSE ag_lu2cells(d, m, j)

\* the entries of the arrays whose .X solve reads
solve_read_entries(st, d) ==
    UNION {{XAg(st, mj[1])[mj[2]][r] : r \in ag_lu2cells(d, mj[1], mj[2])} :
              mj \in LM \X AG_LUS}
    \cup UNION {{st.X_non_ag_vars_kr[k][r] : r \in non_ag_lu2cells(d, k)} :
                  k \in EnabledNonAg}
    \cup UNION {{XMan(st, x[2])[x[1]][x[3]][r] :
                    r \in solve_am_cells(d, x[1], x[2], am_j(x[1], x[3]))} :
                  x \in AM_M_IDX}

\* an entry that is the 0 of np.zeros has no attribute X
solve_raises(st, d) == NoVar \in solve_read_entries(st, d)

\* X_dry_sol_rj and X_irr_sol_rj stacked: ag_X_mrj
ag_X_mrj(sol, st, d) ==
    [m \in LM |-> [r \in Cells |-> [j \in AG_LUS |->
        IF r \in ag_lu2cells(d, m, j) THEN X(sol, XAg(st, m)[j][r]) ELSE 0]]]

non_ag_X_sol_rk(sol, st, d) ==
    [r \in Cells |-> [k \in NON_AG_LUS |->
        IF NON_AG_LAND_USES[k] /\ r \in non_ag_lu2cells(d, k)
        THEN X(sol, st.X_non_ag_vars_kr[k][r]) ELSE 0]]

\* am_X_dry_sol_rj and am_X_irr_sol_rj stacked, indexed by land use
am_X_sol_mrj(sol, st, d) ==
    [am \in AMS |-> [m \in LM |-> [r \in Cells |-> [j \in AG_LUS |->
        IF /\ am \in j2am(j)
           /\ r \in solve_am_cells(d, am, m, j)
        THEN X(sol, XMan(st, m)[am][am_index(am, j)][r]) ELSE 0]]]]

MaxOf(S) == CHOOSE x \in S : \A y \in S : y <= x
\* np.argmax: the first index of the maximum
ArgMax(f, idxs) ==
    CHOOSE i \in idxs :
        /\ \A k \in idxs : f[k] <= f[i]
        /\ \A k \in idxs : k < i => f[k] < f[i]

\* the classification with >= in the place of >
non_ag_bools_r_or_equal(agX, nonagX) ==
    [r \in Cells |->
        MaxOf({nonagX[r][k] : k \in NON_AG_LUS})
        >= MaxOf({agX[mj[1]][r][mj[2]] : mj \in LM \X AG_LUS})]

\* non_ag_X_sol_rk.max(axis=1) > ag_X_mrj.max(axis=(0, 2))
non_ag_bools_r(agX, nonagX) ==
    [r \in Cells |->
        MaxOf({nonagX[r][k] : k \in NON_AG_LUS})
        > MaxOf({agX[mj[1]][r][mj[2]] : mj \in LM \X AG_LUS})]

\* ag_X_mrj_processed[:, non_ag_bools_r, :] = False
ag_X_mrj_processed(agX, bools) ==
    [m \in LM |-> [r \in Cells |-> [j \in AG_LUS |->
        IF bools[r] THEN 0 ELSE agX[m][r][j]]]]

\* the land-use map with the non-agricultural codes not offset
lumap_of_without_base(agP, nonagX, bools) ==
    [r \in Cells |->
        IF bools[r]
        THEN ArgMax(nonagX[r], NON_AG_LUS)
        ELSE ArgMax([j \in AG_LUS |-> SumOver([m \in LM |-> agP[m][r][j]], LM)],
                    AG_LUS)]

lumap_of(agP, nonagX, bools) ==
    [r \in Cells |->
        IF bools[r]
        THEN ArgMax(nonagX[r], NON_AG_LUS) + NON_AGRICULTURAL_LU_BASE_CODE
        ELSE ArgMax([j \in AG_LUS |-> SumOver([m \in LM |-> agP[m][r][j]], LM)],
                    AG_LUS)]

lmmap_of(agP, bools) ==
    [r \in Cells |->
        IF bools[r] THEN 0
        ELSE ArgMax([m \in LM |-> SumOver(agP[m][r], AG_LUS)], LM)]

ammaps_of(lumap_r, lmmap_r, amX) ==
    [am \in AMS |-> [r \in Cells |->
        IF lumap_r[r] >= NON_AGRICULTURAL_LU_BASE_CODE THEN 0
        ELSE IF /\ am \in j2am(lumap_r[r])
                /\ amX[am][lmmap_r[r]][r][lumap_r[r]]
                   >= AGRICULTURAL_MANAGEMENT_USE_THRESHOLD
             THEN 1 ELSE 0]]

\* the SolverSolution solve returns, with the classification it used
SolverSolution(lumap_r, lmmap_r, agP, nonagX, amX, bools) ==
    [status |-> "returned",
     lumap |-> lumap_r,
     lmmap |-> lmmap_r,
     ammaps |-> ammaps_of(lumap_r, lmmap_r, amX),
     ag_X_mrj |-> agP,
     non_ag_X_rk |-> nonagX,
     ag_man_X_mrj |-> amX,
     non_ag_bools_r |-> bools]

decoded_maps(agP, nonagX, amX, bools) ==
    SolverSolution(lumap_of(agP, nonagX, bools), lmmap_of(agP, bools),
                   agP, nonagX, amX, bools)

decoded_with(agX, nonagX, amX, bools) ==
    decoded_maps(ag_X_mrj_processed(agX, bools), nonagX, amX, bools)

decoded_from(agX, nonagX, amX) ==
    decoded_with(agX, nonagX, amX, non_ag_bools_r(agX, nonagX))

\* what solve returns for the values sol, or the AttributeError of an
\* entry without a variable
decode(sol, st, d) ==
    IF solve_raises(st, d) THEN [status |-> "AttributeError"]
    ELSE decoded_from(ag_X_mrj(sol, st, d), non_ag_X_sol_rk(sol, st, d),
                      am_X_sol_mrj(sol, st, d))

solve ==
    /\ pc = "formulated"
    /\ solution = NoSolution
    /\ solution' \in feasible(model)
    /\ deviation' \in deviation_values(gurobi_vars, gurobi_constrs, solution',
                                       deviation_vars(gurobi_vars))
    /\ decoded' = decode(solution', store, input_data)
    /\ UNCHANGED <<pc, year, settings, input_data, store_vars, gurobi_vars,
                   gurobi_constrs, objective, cell_registry_vars, aggregate_registry_vars,
                   updated_cells>>

\* ---------------------------------------------------------- specifications
Next ==
    \/ formulate
    \/ \E d \in Inputs(MainProfiles) : update_formulation(d)

Spec == Init /\ [][Next]_vars

\* change detection: every single input of the skip test varies, one update
InitDetect ==
    InitWith([cell : [Cells -> CellProfiles], yr : {1}, layer : {Cells}],
             SettingsProfiles)

NextDetect ==
    \/ formulate
    \/ \E d \in Inputs(CellProfiles) : year = 0 /\ update_formulation(d)

SpecDetect == InitDetect /\ [][NextDetect]_vars

\* formulate, at most one update, and a solve of the model
InitSolve == InitWith(Inputs(SolveProfiles), SettingsProfiles)

NextSolve ==
    \/ formulate
    \/ \E d \in Inputs(SolveProfiles) : year = 0 /\ update_formulation(d)
    \/ solve

SpecSolve == InitSolve /\ [][NextSolve]_vars

\* every management option switched on, two land uses to decode
InitDecode == InitWith(Inputs(DecodeProfiles), DecodeSettings)

NextDecode ==
    \/ formulate
    \/ \E d \in Inputs(DecodeProfiles) : year = 0 /\ update_formulation(d)
    \/ solve

SpecDecode == InitDecode /\ [][NextDecode]_vars

\* every combination of the settings, one update
InitSettings == InitWith(Inputs(SettingsCellProfiles), AllSettings)

NextSettings ==
    \/ formulate
    \/ \E d \in Inputs(SettingsCellProfiles) : year = 0 /\ update_formulation(d)

SpecSettings == InitSettings /\ [][NextSettings]_vars

\* biodiversity layers that cover no cell, one cell or every cell, one update
InitLayers == InitWith(InputsWithLayers(SettingsCellProfiles), BiodiversitySettings)

NextLayers ==
    \/ formulate
    \/ \E d \in InputsWithLayers(SettingsCellProfiles) :
          year = 0 /\ update_formulation(d)

SpecLayers == InitLayers /\ [][NextLayers]_vars

\* ------------------------------------------------------------- properties
\* handles and records compared up to the identity of the Gurobi objects
StripVar(v) == [v EXCEPT !.id = 0]
StripVarRec(x) == [x EXCEPT !.v = StripVar(@)]
StripConstr(c) ==
    [c EXCEPT !.id = 0,
              !.pos = {StripVar(v) : v \in @},
              !.neg = {StripVar(v) : v \in @},
              !.dev = {StripVar(v) : v \in @}]
StripVars(gv) == {StripVarRec(x) : x \in gv}
StripConstrs(gc) == {StripConstr(c) : c \in gc}

\* an allocation or management-option variable of the model
IsCellVar(x) == x.v.kind \in {"X_ag", "X_non_ag", "X_ag_man"}
CellVarRecs(gv, r) == {x \in gv : IsCellVar(x) /\ x.v.r = r}
IsCellConstr(c) == c.fam \in {"cell_usage", "ag_man"}
\* a step of update_formulation
IsUpdateStep == pc = "formulated" /\ year' = year + 1

\* C1: after every update_formulation call, also one that classifies no cell
\* as changed, the aggregate constraints of the model (adoption ceilings,
\* demand, water, GHG, GBF2, regional caps) are the ones built from the
\* limits and coefficients of the input data passed to that call.
C1_AggregatesFromCurrentData ==
    pc = "formulated" =>
        StripConstrs(AllOf(model.aggregates))
        = StripConstrs(AllOf(aggregate_constraints(store, input_data, settings, 0)))

\* C1, the failing case: an update that changed no cell has left a demand
\* constraint with the target of an earlier year
C1_StaleDemandTarget ==
    /\ year >= 1
    /\ updated_cells = {}
    /\ \E c \in demand_penalty_constraints :
          c.rhs # limit_demand_rescale(input_data, c.key.j)

\* C2: formulate followed by update_formulation calls gives the model that
\* formulate gives on the new state: the same variables with the same
\* bounds and the same constraints, up to the identity of the objects.
C2_IncrementalEquivalence ==
    pc = "formulated" =>
        /\ StripVars(gurobi_vars)
           = StripVars(formulated(input_data, settings, 0).gurobi_vars)
        /\ StripConstrs(gurobi_constrs)
           = StripConstrs(formulated(input_data, settings, 0).gurobi_constrs)

\* C2, a failing case: after an update the model holds a dryland savanna
\* burning variable of a cell that is not savanna eligible
C2_SavannaVariableOfIneligibleCell ==
    /\ year >= 1
    /\ \E x \in gurobi_vars :
          /\ x.v.kind = "X_ag_man"
          /\ x.v.am = "Savanna Burning"
          /\ x.v.m = 0
          /\ x.v.r \notin savanna_eligible_r(input_data)

\* the inputs of C3: maps, eligibility arrays and lower-bound arrays
SameLandState(old, d) ==
    \A r \in Cells :
        /\ lumap(old)[r] = lumap(d)[r]
        /\ lmmap(old)[r] = lmmap(d)[r]
        /\ old.cell[r].ag_x = d.cell[r].ag_x
        /\ old.cell[r].non_ag_x = d.cell[r].non_ag_x
        /\ old.cell[r].non_ag_lb = d.cell[r].non_ag_lb
        /\ old.cell[r].ag_man_lb = d.cell[r].ag_man_lb

\* C3: an update_formulation call whose land-use map, land-management map,
\* eligibility arrays and lower-bound arrays equal the previous year's removes
\* and creates no allocation variable, no management-option variable, no
\* cell-usage constraint and no coupling constraint, and returns no cell.
C3_NoOpUpdate ==
    [][(IsUpdateStep /\ SameLandState(input_data, input_data')) =>
        /\ store_vars' = store_vars
        /\ {x \in gurobi_vars' : IsCellVar(x)} = {x \in gurobi_vars : IsCellVar(x)}
        /\ cell_registry_vars' = cell_registry_vars
        /\ {c \in gurobi_constrs' : IsCellConstr(c)}
           = {c \in gurobi_constrs : IsCellConstr(c)}
        /\ updated_cells' = {}]_vars

\* C3, its case: an update has returned no cell and every variable of the
\* cells is still the one formulate created
C3_NoOpUpdateDone ==
    /\ year >= 1
    /\ updated_cells = {}
    /\ \A x \in gurobi_vars : x.v.id = 1
    /\ \E x \in gurobi_vars : IsCellVar(x)

\* the comparison C4 names, on the inputs of one cell in two years
SameDetectionInputs(a, b) ==
    /\ a.lu = b.lu
    /\ a.lm = b.lm
    /\ a.ag_x = b.ag_x
    /\ a.non_ag_x = b.non_ag_x
    /\ \A k \in NON_AG_LUS :
          ~NON_AG_LAND_USES_REVERSIBLE[k] => a.non_ag_lb[k] = b.non_ag_lb[k]
    /\ \A am \in AMS :
          (AG_MANAGEMENTS[am] /\ ~AG_MANAGEMENTS_REVERSIBLE[am])
              => a.ag_man_lb[am] = b.ag_man_lb[am]

C5_UnchangedCellsUntouched ==
    [][IsUpdateStep =>
        \A r \in Cells \ updated_cells' :
            /\ CellVars(store', r) = CellVars(store, r)
            /\ CellVarRecs(gurobi_vars', r) = CellVarRecs(gurobi_vars, r)
            /\ cell_usage_constraint_r'[r] = cell_usage_constraint_r[r]
            /\ ag_management_constraints_r'[r] = ag_management_constraints_r[r]
            /\ cell_usage_constraint_r[r] \cup ag_management_constraints_r[r]
               \subseteq gurobi_constrs']_vars

\* C5, its case: after an update one cell has the cell-usage constraint of an
\* earlier call and another cell the one of this call
C5_OldAndNewCellConstraints ==
    /\ year >= 1
    /\ \E r \in Cells \ updated_cells :
          \E c \in cell_usage_constraint_r[r] : c.id <= year
    /\ \E r \in updated_cells :
          \E c \in cell_usage_constraint_r[r] : c.id = year + 1

\* C6: in the formulated model, after any updates, every cell r has exactly
\* one registered cell-usage constraint, it is in the model, and it equates
\* to 1 the sum of exactly the dryland, irrigated and non-agricultural
\* variables the model has for r.
C6_CellUsageInvariant ==
    pc = "formulated" =>
        \A r \in Cells :
            /\ Cardinality(cell_usage_constraint_r[r]) = 1
            /\ {c \in gurobi_constrs : c.fam = "cell_usage" /\ c.key.r = r}
               = cell_usage_constraint_r[r]
            /\ \A c \in cell_usage_constraint_r[r] :
                  /\ c.pos = {x.v : x \in {y \in gurobi_vars :
                                 y.v.r = r /\ y.v.kind \in {"X_ag", "X_non_ag"}}}
                  /\ c.cpos = 1
                  /\ c.neg = {} /\ c.dev = {}
                  /\ c.sense = "="
                  /\ c.rhs = Scale

\* C6, its case: a cell rebuilt by an update has a cell-usage constraint of
\* that call over an irrigated variable that formulate had not created
C6_RebuiltCellUsage ==
    /\ year >= 1
    /\ \E r \in updated_cells :
          \E c \in cell_usage_constraint_r[r] :
              /\ c.id = year + 1
              /\ \E v \in c.pos : v.kind = "X_ag" /\ v.m = 1 /\ v.j = 0 /\ v.id > 1

\* the fractions of cell r in a solution, by kind of variable
Fraction(sol, r, kinds) == SumOver(sol[r], {v \in DOMAIN sol[r] : v.kind \in kinds})

\* C7 as stated: in every assignment that satisfies all constraints of the
\* model, the agricultural, management-option and non-agricultural fractions
\* of every cell sum to 1.
C7_AllFractionsSumToOne ==
    solution # NoSolution =>
        \A r \in Cells :
            Fraction(solution, r, {"X_ag", "X_ag_man", "X_non_ag"}) = Scale

\* C7, amended: in every assignment that satisfies all constraints of the
\* model, the agricultural and non-agricultural fractions of every cell sum
\* to 1, and every management-option fraction is at most the fraction of its
\* base agricultural use (it is no part of the sum).
C7_AllocationSumsToOne ==
    solution # NoSolution =>
        \A r \in Cells :
            /\ Fraction(solution, r, {"X_ag", "X_non_ag"}) = Scale
            /\ \A v \in DOMAIN solution[r] :
                  v.kind = "X_ag_man" =>
                      \E b \in DOMAIN solution[r] :
                          /\ b.kind = "X_ag" /\ b.m = v.m /\ b.j = v.j
                          /\ solution[r][v] <= solution[r][b]

\* C7, its case: a solution of the model with a management option in use
C7_SolutionWithManagement ==
    /\ solution # NoSolution
    /\ \E r \in Cells : Fraction(solution, r, {"X_ag_man"}) > 0

\* C8: in the formulated model, after any updates, every management-option
\* variable of (am, m, j, r) is in exactly one coupling constraint
\* manOpt <= baseUse, whose other side is the agricultural variable the
\* store holds for (m, j, r), and that constraint is registered under r.
C8_CouplingInvariant ==
    pc = "formulated" =>
        \A x \in {y \in gurobi_vars : y.v.kind = "X_ag_man"} :
            /\ Cardinality({c \in gurobi_constrs : c.fam = "ag_man" /\ x.v \in c.pos}) = 1
            /\ \A c \in {k \in gurobi_constrs : k.fam = "ag_man" /\ x.v \in k.pos} :
                  /\ c.pos = {x.v}
                  /\ c.neg = {XAg(store, x.v.m)[x.v.j][x.v.r]}
                  /\ \E b \in gurobi_vars :
                        /\ c.neg = {b.v}
                        /\ b.v.kind = "X_ag" /\ b.v.m = x.v.m
                        /\ b.v.j = x.v.j /\ b.v.r = x.v.r
                  /\ c.cpos = 1 /\ c.cneg = 1 /\ c.dev = {}
                  /\ c.sense = "<=" /\ c.rhs = 0
                  /\ c \in ag_management_constraints_r[x.v.r]

\* C8, its case: a management-option variable created by an update is
\* coupled to an agricultural variable created by the same update
C8_RebuiltCoupling ==
    /\ year >= 1
    /\ \E c \in gurobi_constrs :
          /\ c.fam = "ag_man"
          /\ c.id = year + 1
          /\ \E v \in c.pos : v.id = year + 1
          /\ \E b \in c.neg : b.id = year + 1

\* C9: in the formulated model, after any updates, an agricultural variable
\* exists for (m, j, r) exactly when the current ag_x_mrj[m, r, j] is nonzero
\* and a non-agricultural variable exists for (k, r) exactly when k is
\* enabled and the current non_ag_x_rk[r, k] is nonzero.
C9_ExistenceFollowsEligibility ==
    pc = "formulated" =>
        /\ \A m \in LM, j \in AG_LUS, r \in Cells :
              (\E x \in gurobi_vars :
                  x.v.kind = "X_ag" /\ x.v.m = m /\ x.v.j = j /\ x.v.r = r)
              <=> input_data.cell[r].ag_x[m][j] # 0
        /\ \A k \in NON_AG_LUS, r \in Cells :
              (\E x \in gurobi_vars :
                  x.v.kind = "X_non_ag" /\ x.v.j = k /\ x.v.r = r)
              <=> (NON_AG_LAND_USES[k] /\ input_data.cell[r].non_ag_x[k] # 0)
        /\ \A r \in Cells :
              CellAllocVars(store, r)
              = {x.v : x \in {y \in CellVarRecs(gurobi_vars, r) : y.v.kind # "X_ag_man"}}

\* C9, its case: after an update a cell has the irrigated variable of land
\* use 0 that became eligible and no variable of the non-agricultural land
\* use 0 that became ineligible, next to a cell of the earlier eligibility
C9_EligibilityChanged ==
    /\ year >= 1
    /\ \E r \in updated_cells :
          /\ input_data.cell[r].ag_x[1][0] # 0
          /\ input_data.cell[r].non_ag_x[0] = 0
          /\ \E x \in gurobi_vars :
                x.v.kind = "X_ag" /\ x.v.m = 1 /\ x.v.j = 0 /\ x.v.r = r /\ x.v.id > 1
    /\ \E r \in Cells \ updated_cells : input_data.cell[r].non_ag_x[0] # 0

ProductionVars(gv, c) ==
    {x.v : x \in {y \in gv :
        \/ y.v.kind = "X_ag" /\ y.v.j = c
        \/ y.v.kind = "X_ag_man" /\ y.v.j = c /\ AG_MANAGEMENTS[y.v.am]
        \/ y.v.kind = "X_non_ag"}}

\* the demand constraints of a model are one balance per commodity
DemandBalances(gv, gc, registered) ==
    /\ {c \in gc : c.fam = "demand"} = registered
    /\ \A c \in CMS :
          /\ Cardinality({k \in gc : k.fam = "demand" /\ k.key.j = c}) = 1
          /\ \A k \in {x \in gc : x.fam = "demand" /\ x.key.j = c} :
                /\ k.pos = ProductionVars(gv, c)
                /\ k.cpos > 0
                /\ k.neg = {}
                /\ k.dev = {V(c)} /\ k.cdev = 0 - 1
                /\ k.sense = "="
          /\ Cardinality({x \in gv : x.v = V(c)}) = 1
          /\ \A x \in gv : x.v = V(c) => x.lb = 0

\* C11: the model holds exactly one demand constraint per commodity c,
\* totalProduction(c) - target(c) == V[c], over the agricultural,
\* management-option and non-agricultural variables mapped to c, with V[c]
\* one deviation variable per commodity of lower bound 0; the target is the
\* rescaled target of the call that built the constraint (formulate, or an
\* update that rebuilt the family).
C11_DemandBalance ==
    [][pc' = "formulated" =>
        /\ DemandBalances(gurobi_vars', gurobi_constrs', demand_penalty_constraints')
        /\ \/ \A k \in demand_penalty_constraints' :
                 /\ k.rhs = limit_demand_rescale(input_data', k.key.j)
                 /\ k.cpos = yield_coef(input_data')
                 /\ k.id = year' + 1
           \/ /\ IsUpdateStep
              /\ updated_cells' = {}
              /\ demand_penalty_constraints' = demand_penalty_constraints]_vars

\* C11, its case: after an update that rebuilt a cell, the demand constraint
\* of commodity 1 is one of that call over an agricultural, a
\* management-option and a non-agricultural variable
C11_RebuiltDemandBalance ==
    /\ year >= 1
    /\ updated_cells # {}
    /\ \E k \in demand_penalty_constraints :
          /\ k.key.j = 1
          /\ k.id = year + 1
          /\ \E v \in k.pos : v.kind = "X_ag" /\ v.id = year + 1
          /\ \E v \in k.pos : v.kind = "X_ag_man"
          /\ \E v \in k.pos : v.kind = "X_non_ag"

\* the production of commodity c in the solution, with the yields of the
\* current year
ProductionOf(c) ==
    yield_coef(input_data) * ValueOf(solution, ProductionVars(gurobi_vars, c))

Max(a, b) == IF a >= b THEN a ELSE b

GHGVars(gv) == {x.v : x \in {y \in gv : IsCellVar(y)}}

\* C13: with GHG limits on, a hard type gives exactly one constraint
\* totalGHG <= limit and no soft one, a soft type exactly the two constraints
\* totalGHG - limit <= E and limit - totalGHG <= E and no hard one; this
\* holds after formulate and after every update, and the constraints of an
\* update that rebuilt the family are all of that call and of its limit.
C13_GHGFormulation ==
    (pc = "formulated" /\ settings.GHG_EMISSIONS_LIMITS = "on") =>
        LET G == {c \in gurobi_constrs : c.fam = "ghg"}
        IN /\ \A c \in G :
                 /\ c.pos = GHGVars(gurobi_vars)
                 /\ c.cpos > 0
                 /\ c.neg = {}
           /\ \A a, b \in G : a.id = b.id /\ a.rhs = b.rhs /\ a.cpos = b.cpos
           /\ (year = 0 \/ updated_cells # {}) =>
                 \A c \in G :
                     /\ c.id = year + 1
                     /\ c.rhs = limit_ghg_rescale(input_data)
                     /\ c.cpos = yield_coef(input_data)
           /\ settings.GHG_CONSTRAINT_TYPE = "hard" =>
                 /\ Cardinality(G) = 1
                 /\ G = ghg_consts_ub
                 /\ ghg_consts_soft = {}
                 /\ \A c \in G : c.dev = {} /\ c.sense = "<="
           /\ settings.GHG_CONSTRAINT_TYPE = "soft" =>
                 /\ Cardinality(G) = 2
                 /\ G = ghg_consts_soft
                 /\ ghg_consts_ub = {}
                 /\ \A c \in G : c.dev = {E}
                 /\ \E c \in G : c.cdev = 0 - 1 /\ c.sense = "<="
                 /\ \E c \in G : c.cdev = 1 /\ c.sense = ">="

\* C13, its case: an update has rebuilt the two soft GHG constraints for the
\* limit of a later year
C13_SoftGHGRebuilt ==
    /\ year = 1
    /\ updated_cells # {}
    /\ settings.GHG_CONSTRAINT_TYPE = "soft"
    /\ Cardinality(ghg_consts_soft) = 2
    /\ \A c \in ghg_consts_soft :
          c.id = 2 /\ c.rhs = limit_ghg_rescale(input_data) /\ input_data.yr = MaxYr

\* the water constraints of region reg in the model
WaterConstrs(reg) == {c \in gurobi_constrs : c.fam = "water" /\ c.key.r = reg}

\* the variables of the net yield of a region in a model
WaterVars(gv, reg) ==
    {x.v : x \in {y \in gv : IsCellVar(y) /\ y.v.r \in water_region_indices(reg)}}

\* C14 as stated: for every water region, a hard type gives one one-sided
\* constraint netYield >= limit, and a soft type gives both
\* netYield - limit <= W[region] and limit - netYield <= W[region].
C14_WaterTwoSided ==
    (pc = "formulated" /\ settings.WATER_LIMITS = "on") =>
        \A reg \in WATER_REGIONS :
            /\ settings.WATER_CONSTRAINT_TYPE = "hard" =>
                  /\ Cardinality(WaterConstrs(reg)) = 1
                  /\ \A c \in WaterConstrs(reg) : c.dev = {} /\ c.sense = ">="
            /\ settings.WATER_CONSTRAINT_TYPE = "soft" =>
                  /\ \E c \in WaterConstrs(reg) :
                        c.dev = {W(reg - 1)} /\ c.cdev = 1 /\ c.sense = ">="
                  /\ \E c \in WaterConstrs(reg) :
                        c.dev = {W(reg - 1)} /\ c.cdev = 0 - 1 /\ c.sense = "<="

\* C14, amended: for every water region the model holds exactly one water
\* constraint over the net yield of the region, registered in
\* water_limit_constraints: netYield >= limit for a hard type, and the
\* one-sided limit - netYield <= W[region] for a soft type (the penalty
\* variable is bounded by the shortfall only).
C14_WaterOneSided ==
    (pc = "formulated" /\ settings.WATER_LIMITS = "on") =>
        \A reg \in WATER_REGIONS :
            /\ Cardinality(WaterConstrs(reg)) = 1
            /\ WaterConstrs(reg) \subseteq water_limit_constraints
            /\ \A c \in WaterConstrs(reg) :
                  /\ c.pos = WaterVars(gurobi_vars, reg)
                  /\ c.cpos > 0
                  /\ c.neg = {}
                  /\ c.sense = ">="
                  /\ settings.WATER_CONSTRAINT_TYPE = "hard" => c.dev = {}
                  /\ settings.WATER_CONSTRAINT_TYPE = "soft" =>
                        c.dev = {W(reg - 1)} /\ c.cdev = 1

\* C14, its case: a formulated model with a soft water constraint over W
\* that an update has rebuilt
C14_SoftWaterRebuilt ==
    /\ pc = "formulated"
    /\ year = 1
    /\ settings.WATER_CONSTRAINT_TYPE = "soft"
    /\ \E c \in water_limit_constraints : c.dev # {} /\ c.id = 2
    /\ \E x \in gurobi_vars : x.v.kind = "W"

\* no constraint of the family fam in the model and none in its lookup
NoTarget(fam, lookup) ==
    /\ {c \in gurobi_constrs : c.fam = fam} = {}
    /\ lookup = {}

\* C15: for each of the five biodiversity target families (GBF2, GBF3, GBF4
\* SNES, GBF4 ECNES, GBF8), a target whose eligible-cell index set is empty
\* has no constraint in the model and no stored entry, after formulate and
\* after an update that rebuilt the families.
C15_SkipOnEmptyTarget ==
    (pc = "formulated" /\ (year = 0 \/ updated_cells # {})) =>
        /\ priority_degraded_mask_idx(input_data) = {} =>
              NoTarget("GBF2", bio_GBF2_constrs)
        /\ GBF3_ind(input_data) = {} => NoTarget("GBF3", bio_GBF3_constrs)
        /\ GBF4_SNES_ind(input_data) = {} =>
              NoTarget("GBF4_SNES", bio_GBF4_SNES_constrs)
        /\ GBF4_ECNES_ind(input_data) = {} =>
              NoTarget("GBF4_ECNES", bio_GBF4_ECNES_constrs)
        /\ GBF8_species_indices(input_data) = {} =>
              NoTarget("GBF8", bio_GBF8_constrs)

\* C15, the failing case: the layers cover no cell, the GBF4 targets are
\* skipped, and the model holds a GBF8 constraint over no variable with a
\* positive target
C15_ConstraintOverEmptyLayer ==
    /\ pc = "formulated"
    /\ input_data.layer = {}
    /\ settings.BIODIVERSITY_TARGET_GBF_4_SNES = "on"
    /\ NoTarget("GBF4_SNES", bio_GBF4_SNES_constrs)
    /\ NoTarget("GBF4_ECNES", bio_GBF4_ECNES_constrs)
    /\ \E c \in bio_GBF8_constrs :
          c \in gurobi_constrs /\ c.pos = {} /\ c.sense = ">=" /\ c.rhs > 0

\* C16: a GHG or water constraint type other than hard and soft makes
\* formulate fail under every combination of the other settings: no model
\* is formulated with such a type.
C16_UnknownTypeFails ==
    pc = "formulated" =>
        /\ settings.GHG_CONSTRAINT_TYPE \in {"hard", "soft"}
        /\ settings.WATER_CONSTRAINT_TYPE \in {"hard", "soft"}

\* C16, the failing case: formulate has built a model and set its objective
\* under unknown GHG and water types, without E, W or their penalties
C16_FormulatedWithUnknownTypes ==
    /\ pc = "formulated"
    /\ settings.GHG_CONSTRAINT_TYPE = "medium"
    /\ settings.WATER_CONSTRAINT_TYPE = "medium"
    /\ objective # NoObjective
    /\ DOMAIN objective.penalties.num = {V(c) : c \in CMS}
    /\ {c \in gurobi_constrs : c.fam \in {"ghg", "water"}} = {}

\* C17: a configuration error (unknown objective or constraint type) is
\* raised before any model mutation: a call that fails has added and removed
\* no variable and no constraint.
C17_ErrorBeforeMutation ==
    [][pc' = "failed" =>
        /\ gurobi_vars' = gurobi_vars
        /\ gurobi_constrs' = gurobi_constrs]_vars

\* C17, the failing case: formulate has failed on an unknown objective after
\* adding every variable and every constraint of a model with soft types
C17_FailedWithModelBuilt ==
    /\ pc = "failed"
    /\ objective_unknown(settings)
    /\ ~ghg_type_unknown(settings) /\ ~water_type_unknown(settings)
    /\ objective = NoObjective
    /\ \E x \in gurobi_vars : x.v = E
    /\ \E c \in gurobi_constrs : c.fam = "water" /\ c.dev # {}
    /\ \A r \in Cells : cell_usage_constraint_r[r] # {}

\* the coefficient the composed objective gives an allocation variable:
\* (alpha * economy + bio_sign * (1 - alpha) * biodiversity) * (1 - beta)
WrapCoef(d, bio_sign) ==
    (SOLVE_WEIGHT_ALPHA * economy_coef(d)
     + bio_sign * (WeightOne - SOLVE_WEIGHT_ALPHA) * biodiv_coef(d))
    * (WeightOne - SOLVE_WEIGHT_BETA)

\* C18: with sense mincost the model minimizes
\* (alpha*economy - (1-alpha)*biodiversity)*(1-beta) + beta*penalties, with
\* maxprofit it maximizes
\* (alpha*economy + (1-alpha)*biodiversity)*(1-beta) - beta*penalties, and
\* after every update_formulation, also one that changed no cell, the
\* objective is over the variables of the model with the coefficients of the
\* current year.
C18_ObjectiveComposition ==
    pc = "formulated" =>
        /\ DOMAIN objective.alloc = {x.v : x \in {y \in gurobi_vars : IsCellVar(y)}}
        /\ DOMAIN objective.penalties.num
           = {x.v : x \in {y \in gurobi_vars : ~IsCellVar(y)}}
        /\ \A c \in CMS :
              objective.penalties.num[V(c)]
              = demand_penalty_coef(input_data, c) * SOLVER_WEIGHT_DEMAND
        /\ settings.OBJECTIVE = "mincost" =>
              /\ objective.sense = "MINIMIZE"
              /\ \A v \in DOMAIN objective.alloc :
                    objective.alloc[v] = WrapCoef(input_data, 0 - 1)
              /\ objective.penalty_weight = SOLVE_WEIGHT_BETA
        /\ settings.OBJECTIVE = "maxprofit" =>
              /\ objective.sense = "MAXIMIZE"
              /\ \A v \in DOMAIN objective.alloc :
                    objective.alloc[v] = WrapCoef(input_data, 1)
              /\ objective.penalty_weight = 0 - SOLVE_WEIGHT_BETA

\* C18, its case: an update that changed no cell has left the demand
\* constraints of the earlier year and has recomposed a maxprofit objective
\* with the coefficients of the current year
C18_RecomposedWithoutChangedCell ==
    /\ pc = "formulated"
    /\ year = 1
    /\ updated_cells = {}
    /\ settings.OBJECTIVE = "maxprofit"
    /\ \E c \in demand_penalty_constraints : c.cpos # yield_coef(input_data)
    /\ objective.sense = "MAXIMIZE"
    /\ \E v \in DOMAIN objective.alloc : objective.alloc[v] = WrapCoef(input_data, 1)

\* the deviation variables of the model
DeviationVars == {x.v : x \in {y \in gurobi_vars : ~IsCellVar(y)}}

\* C19: E exists and is in the penalty objective exactly when the GHG type
\* is soft, W exists and is in the penalty objective exactly when the water
\* type is soft; with any other type the variable is absent and its penalty
\* and its weight are 0 in the penalty term.
C19_SoftOnlyDeviationTerms ==
    /\ pc # "unbuilt" =>
          /\ E \in DeviationVars <=> settings.GHG_CONSTRAINT_TYPE = "soft"
          /\ \A reg \in WATER_REGIONS :
                W(reg - 1) \in DeviationVars <=> settings.WATER_CONSTRAINT_TYPE = "soft"
    /\ pc = "formulated" =>
          LET pen == objective.penalties
          IN /\ E \in DOMAIN pen.num <=> settings.GHG_CONSTRAINT_TYPE = "soft"
             /\ \A reg \in WATER_REGIONS :
                   W(reg - 1) \in DOMAIN pen.num
                   <=> settings.WATER_CONSTRAINT_TYPE = "soft"
             /\ settings.GHG_CONSTRAINT_TYPE = "soft" =>
                   /\ pen.weight_ghg = SOLVER_WEIGHT_GHG
                   /\ pen.num[E] = ghg_penalty_coef(input_data) * SOLVER_WEIGHT_GHG
             /\ settings.GHG_CONSTRAINT_TYPE # "soft" => pen.weight_ghg = 0
             /\ settings.WATER_CONSTRAINT_TYPE = "soft" =>
                   /\ pen.weight_water = SOLVER_WEIGHT_WATER
                   /\ \A reg \in WATER_REGIONS :
                         pen.num[W(reg - 1)]
                         = water_penalty_coef(input_data) * SOLVER_WEIGHT_WATER
             /\ settings.WATER_CONSTRAINT_TYPE # "soft" => pen.weight_water = 0
             /\ pen.ones
                = (IF settings.GHG_CONSTRAINT_TYPE = "soft" THEN 1 ELSE 0)
                  + (IF settings.WATER_CONSTRAINT_TYPE = "soft" THEN 1 ELSE 0)
             /\ pen.weight_demand = SOLVER_WEIGHT_DEMAND

\* C19, its case: after an update, a model of a soft GHG type and a hard
\* water type has E in the model and in the penalties and no W
C19_SoftGHGHardWater ==
    /\ pc = "formulated"
    /\ year = 1
    /\ settings.GHG_CONSTRAINT_TYPE = "soft"
    /\ settings.WATER_CONSTRAINT_TYPE = "hard"
    /\ E \in DeviationVars
    /\ E \in DOMAIN objective.penalties.num
    /\ objective.penalties.weight_water = 0
    /\ \A x \in gurobi_vars : x.v.kind # "W"

\* the largest solved value of the variables of the kind `kind` of cell r
\* (0 without such a variable)
BestValue(r, kind) ==
    MaxOf({0} \cup {solution[r][v] : v \in {u \in DOMAIN solution[r] : u.kind = kind}})

\* C20: solve classifies cell r as non-agricultural exactly when the
\* maximum of its non-agricultural solved values is strictly greater than
\* the maximum of its agricultural solved values over all (management,
\* land-use) combinations; on a tie the cell is agricultural.  A
\* non-agricultural cell has a land-use code from the base code on.
C20_DecoderClassification ==
    decoded.status = "returned" =>
        \A r \in Cells :
            /\ decoded.non_ag_bools_r[r]
               <=> BestValue(r, "X_non_ag") > BestValue(r, "X_ag")
            /\ decoded.lumap[r] >= NON_AGRICULTURAL_LU_BASE_CODE
               <=> BestValue(r, "X_non_ag") > BestValue(r, "X_ag")

\* C20, its case: solve has returned for a solution with a cell of equal
\* best values, classified agricultural, and a cell of a larger
\* non-agricultural value, classified non-agricultural
C20_TieAndNonAgricultural ==
    /\ decoded.status = "returned"
    /\ \E r \in Cells :
          /\ BestValue(r, "X_non_ag") = BestValue(r, "X_ag")
          /\ BestValue(r, "X_ag") > 0
          /\ decoded.lumap[r] < NON_AGRICULTURAL_LU_BASE_CODE
    /\ \E r \in Cells :
          /\ BestValue(r, "X_non_ag") > BestValue(r, "X_ag")
          /\ decoded.lumap[r] >= NON_AGRICULTURAL_LU_BASE_CODE

\* the solved value of the variable (kind, am, m, j) of cell r (0 without
\* such a variable)
SolvedValue(r, kind, am, m, j) ==
    SumOver(solution[r], {v \in DOMAIN solution[r] :
                             v.kind = kind /\ v.am = am /\ v.m = m /\ v.j = j})
\* the solved agricultural total of land use j, and of management m, in cell r
LandUseTotal(r, j) == SumOver([m \in LM |-> SolvedValue(r, "X_ag", "", m, j)], LM)
ManagementTotal(r, m) == SumOver([j \in AG_LUS |-> SolvedValue(r, "X_ag", "", m, j)], AG_LUS)
ClassifiedNonAg(r) == BestValue(r, "X_non_ag") > BestValue(r, "X_ag")

\* C21: for every cell, lumap holds one code: for an agricultural cell a
\* land use j of the largest solved agricultural total, for a
\* non-agricultural cell the base code plus a non-agricultural land use k
\* of the largest solved value; lmmap is 0 or 1, for an agricultural cell a
\* management of the largest agricultural total, for a non-agricultural
\* cell 0.
C21_DecodedMaps ==
    decoded.status = "returned" =>
        \A r \in Cells :
            /\ decoded.lmmap[r] \in LM
            /\ IF ClassifiedNonAg(r)
               THEN /\ decoded.lmmap[r] = 0
                    /\ \E k \in NON_AG_LUS :
                          /\ decoded.lumap[r] = NON_AGRICULTURAL_LU_BASE_CODE + k
                          /\ \A i \in NON_AG_LUS :
                                SolvedValue(r, "X_non_ag", "", 0, i)
                                <= SolvedValue(r, "X_non_ag", "", 0, k)
               ELSE /\ decoded.lumap[r] \in AG_LUS
                    /\ \A j \in AG_LUS :
                          LandUseTotal(r, j) <= LandUseTotal(r, decoded.lumap[r])
                    /\ \A m \in LM :
                          ManagementTotal(r, m) <= ManagementTotal(r, decoded.lmmap[r])

\* C21, its case: solve has returned an irrigated cell of land use 0 and a
\* dryland cell of land use 1, each with strictly largest totals
C21_IrrigatedAndDryland ==
    /\ decoded.status = "returned"
    /\ \E r \in Cells :
          /\ ~ClassifiedNonAg(r)
          /\ decoded.lumap[r] = 0 /\ decoded.lmmap[r] = 1
          /\ LandUseTotal(r, 0) > LandUseTotal(r, 1)
          /\ ManagementTotal(r, 1) > ManagementTotal(r, 0)
    /\ \E r \in Cells :
          /\ ~ClassifiedNonAg(r)
          /\ decoded.lumap[r] = 1 /\ decoded.lmmap[r] = 0
          /\ LandUseTotal(r, 1) > LandUseTotal(r, 0)
          /\ ManagementTotal(r, 0) > ManagementTotal(r, 1)

\* C22: in the SolverSolution solve returns, every cell classified
\* non-agricultural has all its agricultural allocation values 0, and every
\* cell classified agricultural has all its non-agricultural allocation
\* values 0.
C22_NonSelectedBranchZero ==
    decoded.status = "returned" =>
        \A r \in Cells :
            IF decoded.lumap[r] >= NON_AGRICULTURAL_LU_BASE_CODE
            THEN \A m \in LM : \A j \in AG_LUS : decoded.ag_X_mrj[m][r][j] = 0
            ELSE \A k \in NON_AG_LUS : decoded.non_ag_X_rk[r][k] = 0

\* C22, its case: solve has returned an agricultural cell together with a
\* positive non-agricultural value of the cell
C22_AgCellWithNonAgValue ==
    /\ decoded.status = "returned"
    /\ \E r \in Cells :
          /\ decoded.lumap[r] < NON_AGRICULTURAL_LU_BASE_CODE
          /\ \E k \in NON_AG_LUS : decoded.non_ag_X_rk[r][k] > 0

\* C23: for every cell r and management option am, ammaps[am][r] is 1
\* exactly when r is agricultural and the solved value of option am at the
\* decoded (lmmap[r], lumap[r]) combination of r meets or exceeds the
\* activation threshold, and 0 otherwise.
C23_ActivationMap ==
    decoded.status = "returned" =>
        \A am \in AMS : \A r \in Cells :
            decoded.ammaps[am][r] =
                IF /\ decoded.lumap[r] < NON_AGRICULTURAL_LU_BASE_CODE
                   /\ SolvedValue(r, "X_ag_man", am, decoded.lmmap[r], decoded.lumap[r])
                      >= AGRICULTURAL_MANAGEMENT_USE_THRESHOLD
                THEN 1 ELSE 0

\* C23, its case: solve has returned a dryland cell of land use 1 whose
\* savanna-burning variable is solved at the threshold or above, and
\* ammaps holds 0 for it
C23_SolvedOptionNotActivated ==
    /\ decoded.status = "returned"
    /\ \E r \in Cells :
          /\ decoded.lumap[r] = 1 /\ decoded.lmmap[r] = 0
          /\ SolvedValue(r, "X_ag_man", "Savanna Burning", 0, 1)
             >= AGRICULTURAL_MANAGEMENT_USE_THRESHOLD
          /\ decoded.ammaps["Savanna Burning"][r] = 0

\* the variables of a model of the kind `kind`, option am and land use j
ModelVars(gv, kind, am, j) ==
    {x.v : x \in {y \in gv : y.v.kind = kind /\ y.v.am = am /\ y.v.j = j}}

\* C24: after formulate and after every update_formulation that changes at
\* least one cell, the model holds exactly one adoption-ceiling constraint
\* per (am, j) pair, sum of the management-option variables of (am, j) <=
\* limit(am, j) * sum of the agricultural variables of j, over the
\* variables that exist in the model, built by that call; no ceiling
\* constraint of an earlier year remains.
C24_AdoptionCeiling ==
    (pc = "formulated" /\ (year = 0 \/ updated_cells # {})) =>
        /\ {c \in gurobi_constrs : c.fam = "adoption_limit"} = adoption_limit_constraints
        /\ Cardinality(adoption_limit_constraints) = Cardinality(AM_IDX)
        /\ \A x \in AM_IDX :
              \E c \in adoption_limit_constraints :
                  /\ c.key.tag = x[1] /\ c.key.j = am_j(x[1], x[2])
                  /\ c.id = year + 1
                  /\ c.pos = ModelVars(gurobi_vars, "X_ag_man", x[1], am_j(x[1], x[2]))
                  /\ c.cpos = Scale
                  /\ c.neg = ModelVars(gurobi_vars, "X_ag", "", am_j(x[1], x[2]))
                  /\ c.cneg = ag_man_limits(input_data, x[1], am_j(x[1], x[2]))
                  /\ c.dev = {}
                  /\ c.sense = "<=" /\ c.rhs = 0

\* C24, its case: the second update has changed a cell, and a ceiling of
\* that call is over a management-option variable and an agricultural
\* variable the call created, both dryland and irrigated options in it
C24_CeilingRebuilt ==
    /\ pc = "formulated"
    /\ year = 2
    /\ updated_cells # {}
    /\ \E c \in adoption_limit_constraints :
          /\ c.id = year + 1
          /\ \E v \in c.pos : v.id = year + 1
          /\ \E v \in c.neg : v.id = year + 1
          /\ \E v \in c.pos : v.m = 0
          /\ \E v \in c.pos : v.m = 1

\* every constraint the registry containers of LutoSolver hold
Registered ==
    AllIn(cell_usage_constraint_r) \cup AllIn(ag_management_constraints_r)
    \cup adoption_limit_constraints \cup demand_penalty_constraints
    \cup water_limit_constraints \cup ghg_consts_ub \cup ghg_consts_soft
    \cup bio_GBF2_constrs \cup bio_GBF3_constrs \cup bio_GBF4_SNES_constrs
    \cup bio_GBF4_ECNES_constrs \cup bio_GBF8_constrs
    \cup regional_adoption_constrs

\* C25: after formulate and after any sequence of update_formulation calls,
\* the constraints present in the solver model are the constraints held in
\* the registry containers: no constraint of the model is untracked and no
\* registry entry is a constraint removed from the model.
C25_RegistryAgreement ==
    pc = "formulated" => gurobi_constrs = Registered

\* C25, its case: after two updates, the second with a changed and an
\* unchanged cell, the registry holds a cell constraint of formulate or the
\* first update next to cell and aggregate constraints of the second
C25_MixedRegistry ==
    /\ pc = "formulated"
    /\ year = 2
    /\ updated_cells # {} /\ updated_cells # Cells
    /\ \E c \in Registered : c.id < year + 1 /\ c.fam = "ag_man"
    /\ \E c \in Registered : c.id = year + 1 /\ c.fam = "ag_man"
    /\ \E c \in Registered : c.id = year + 1 /\ c.fam = "demand"

\* the variables that exist in the model
ExistingVars == {x.v : x \in gurobi_vars}
\* the variables a constraint or the expression it holds refers to
Referred(c) == c.pos \cup c.neg \cup c.dev

\* C26: after every update_formulation call, every constraint of the
\* model, the objective and every aggregate expression solve evaluates (the
\* expressions of the registered demand, GHG, water and biodiversity
\* constraints) refer only to variables that exist in the model, never to
\* a variable _update_variables removed.
C26_NoDanglingReferences ==
    (pc = "formulated" /\ year >= 1) =>
        /\ \A c \in gurobi_constrs \cup Registered : Referred(c) \subseteq ExistingVars
        /\ DOMAIN objective.alloc \subseteq ExistingVars
        /\ DOMAIN objective.penalties.num \subseteq ExistingVars

\* C26, its case: the update removed the variables of one cell and kept
\* those of the other, and an aggregate constraint and the objective are
\* over variables of both
C26_RemovedAndKept ==
    /\ pc = "formulated"
    /\ year >= 1
    /\ updated_cells # {} /\ updated_cells # Cells
    /\ \E c \in demand_penalty_constraints :
          /\ \E v \in c.pos : v.id = year + 1 /\ v.r \in updated_cells
          /\ \E v \in c.pos : v.id < year + 1 /\ v.r \notin updated_cells
    /\ \E v \in DOMAIN objective.alloc : v.id = year + 1
    /\ \E v \in DOMAIN objective.alloc : v.id < year + 1

\* C27: after formulate and after any sequence of update_formulation
\* calls, a dryland savanna-burning management variable exists for cell r
\* only if r is in the savanna-eligible cell set.
C27_SavannaEligibilityKept ==
    pc = "formulated" =>
        \A x \in gurobi_vars :
            (x.v.kind = "X_ag_man" /\ x.v.am = "Savanna Burning" /\ x.v.m = 0)
            => x.v.r \in savanna_eligible_r(input_data)

\* C27, its case: an update has rebuilt a cell that is not savanna
\* eligible, and the call created a dryland savanna-burning variable for it
C27_RebuildWithoutFilter ==
    /\ pc = "formulated"
    /\ year >= 1
    /\ \E r \in updated_cells :
          /\ r \notin savanna_eligible_r(input_data)
          /\ \E x \in gurobi_vars :
                /\ x.v.kind = "X_ag_man" /\ x.v.am = "Savanna Burning"
                /\ x.v.m = 0 /\ x.v.r = r
                /\ x.v.id = year + 1

\* C28: for every cell solve classifies as agricultural and that has a
\* positive agricultural solved value, the decoded pair (lmmap[r],
\* lumap[r]) is a (management, land-use) combination whose own solved
\* allocation for r is positive.
C28_ConsistentPair ==
    decoded.status = "returned" =>
        \A r \in Cells :
            (decoded.lumap[r] < NON_AGRICULTURAL_LU_BASE_CODE
             /\ BestValue(r, "X_ag") > 0)
            => SolvedValue(r, "X_ag", "", decoded.lmmap[r], decoded.lumap[r]) > 0

\* C28, its case: solve has returned an agricultural cell with equal
\* positive values of dryland land use 1 and irrigated land use 0, decoded
\* as dryland land use 0, a combination the cell has no variable of
C28_PairWithoutAllocation ==
    /\ decoded.status = "returned"
    /\ \E r \in Cells :
          /\ SolvedValue(r, "X_ag", "", 0, 1) > 0
          /\ SolvedValue(r, "X_ag", "", 1, 0) = SolvedValue(r, "X_ag", "", 0, 1)
          /\ decoded.lumap[r] = 0 /\ decoded.lmmap[r] = 0
          /\ r \notin ag_lu2cells(input_data, 0, 0)

\* C29: in every formulated model, if E is in the penalty objective then
\* soft GHG constraints over E are in the model, and if W is in the
\* penalty objective then every entry of W is in a soft water constraint of
\* the model, for every combination of the constraint types with the GHG
\* and water limit switches.
C29_PenalisedDeviationTied ==
    pc = "formulated" =>
        /\ E \in DOMAIN objective.penalties.num
           => /\ ghg_consts_soft # {}
              /\ \A c \in ghg_consts_soft : c \in gurobi_constrs /\ E \in c.dev
        /\ \A reg \in WATER_REGIONS :
              W(reg - 1) \in DOMAIN objective.penalties.num
              => \E c \in gurobi_constrs : c.fam = "water" /\ W(reg - 1) \in c.dev

\* C29, its case: a model formulated with the soft GHG type and the GHG
\* limits switched off has E in its penalty objective and no GHG
\* constraint
C29_PenalisedWithoutConstraint ==
    /\ pc = "formulated"
    /\ settings.GHG_CONSTRAINT_TYPE = "soft"
    /\ settings.GHG_EMISSIONS_LIMITS = "off"
    /\ E \in DOMAIN objective.penalties.num
    /\ E \in ExistingVars
    /\ \A c \in gurobi_constrs : E \notin c.dev

\* the variables of the enabled management options of the model at the
\* priority-degraded cells that are eligible for the land use of the variable
DegradedManVars ==
    {x.v : x \in {y \in gurobi_vars :
        /\ y.v.kind = "X_ag_man"
        /\ AG_MANAGEMENTS[y.v.am]
        /\ y.v.r \in priority_degraded_mask_idx(input_data)
        /\ y.v.r \in ag_lu2cells(input_data, y.v.m, y.v.j)}}

\* C30: for every enabled management option am, every land use j of am's
\* land-use list and every priority-degraded cell r eligible for j, the
\* management-option variable of (am, j, r) is in the GBF2 expression, in
\* the constraint built from the data of the current year.
C30_GBF2Complete ==
    (/\ pc = "formulated"
     /\ settings.BIODIVERSITY_TARGET_GBF_2 = "on"
     /\ (year = 0 \/ updated_cells # {})) =>
        /\ bio_GBF2_constrs # {}
        /\ \A c \in bio_GBF2_constrs : DegradedManVars \subseteq c.pos

\* C30, its case: a formulated model whose GBF2 expression lacks the
\* savanna-burning variable (position 0 of the list, land use 1) of a
\* priority-degraded cell that is eligible for land use 1 and not for
\* land use 0
C30_OptionVariableMissing ==
    /\ pc = "formulated"
    /\ year = 0
    /\ \E c \in bio_GBF2_constrs :
          \E v \in DegradedManVars :
              /\ v.am = "Savanna Burning" /\ v.j = 1
              /\ v.r \notin ag_lu2cells(input_data, v.m, 0)
              /\ v \notin c.pos

====
